---- MODULE Spec2Model ----
(***************************************************************************)
(* Silence Cutter: segmenter (silence.js), grouper (transcribe.js part of  *)
(* app.js), oracle scoring (evaluate.js), edit-list assembly, pipeline,    *)
(* renders and page session (app.js), engine input files (ffmpeg adapter)  *)
(* and the loading of the speech engine (loadWhisperModel).                *)
(*                                                                         *)
(* Times are exact decimals counted in ticks of 0.1 ms (1 s = 10000        *)
(* ticks), so that rounding to three decimals is a real operation.  The    *)
(* inputs avoid exact half-millisecond ties, whose outcome in the code     *)
(* depends on binary floating point.                                       *)
(* JavaScript indices (segment index, group_id, best_take_index) are kept  *)
(* zero-based as data; TLA+ sequence positions are one-based.              *)
(* An optional JSON field is a sequence of length 0 (absent) or 1.         *)
(***************************************************************************)
EXTENDS Integers, Sequences, FiniteSets, TLC

VARIABLES stage, settings, log, silences, segments, totalDuration,
          transcription, groups, is_best, ai_scores, bestTakes,
          suggestedOrder, finalDuration, timeline, lastOp, lastReply,
          filename, error, wavBlobs, chunks, failed, renders, cutBlob,
          edl, xml, file, runPath, inputPath, workerFSPath, mounted,
          inputFile, pipeline, pipelineLoading, callers, requested, runs

vars == <<stage, settings, log, silences, segments, totalDuration,
          transcription, groups, is_best, ai_scores, bestTakes,
          suggestedOrder, finalDuration, timeline, lastOp, lastReply,
          filename, error, wavBlobs, chunks, failed, renders, cutBlob,
          edl, xml, file, runPath, inputPath, workerFSPath, mounted,
          inputFile, pipeline, pipelineLoading, callers, requested, runs>>

segVars == <<silences, segments, totalDuration>>
editVars == <<groups, is_best, ai_scores, bestTakes, suggestedOrder,
              finalDuration, timeline, lastOp, lastReply>>
\* transcription and chunks are the text and chunks of each segment's
\* transcription; failed (history) holds the segments whose transcription
\* threw; renders holds the take lists of the renders in flight.
audioVars == <<wavBlobs, chunks, failed>>
outVars == <<renders, cutBlob, edl, xml>>
\* file is state.file, runPath the constant inputPath of startPipeline and
\* inputPath the field state.inputPath;
\* workerFSPath is the module variable of the engine adapter, mounted the
\* file mounted at /workerfs and inputFile the file written as "input".
fsVars == <<file, runPath, inputPath, workerFSPath, mounted, inputFile>>
\* pipeline and pipelineLoading are the module variables of the transcriber;
\* callers holds the calls of loadWhisperModel that have not returned.
asrVars == <<pipeline, pipelineLoading, callers>>
\* History: requested is the take list of the latest render requested, runs
\* the number of pipeline runs started since the page was loaded.
histVars == <<requested, runs>>
pageVars == <<fsVars, asrVars, histVars>>

\* ------------------------------------------------------------------ bounds
MaxSilences == 2
MaxSegs == 3
MaxEditSegs == 2
MaxEvals == 2
MaxOrderLen == 2
MaxClips == 2
MaxRenders == 2
MaxRuns == 2
MaxCallers == 3

\* ----------------------------------------------------------------- helpers
None == <<>>
Some(x) == <<x>>

Max(a, b) == IF a >= b THEN a ELSE b
Min(a, b) == IF a <= b THEN a ELSE b

\* History of the last operation and its arguments (not program state).
NoOp == [op |-> "none", groupId |-> 0, segIndex |-> 0, repeated |-> FALSE]

RECURSIVE SumSeq(_)
SumSeq(s) == IF s = <<>> THEN 0 ELSE Head(s) + SumSeq(Tail(s))

\* Math.round(n * 1000) / 1000 on a non-negative time given in ticks.
round3(n) == ((n + 5) \div 10) * 10

\* ================================================================ segmenter
\* pairSilences with an unmatched silence closed at its own start.
pairSilencesEndAtStart(starts, ends, total) ==
    [i \in 1..Len(starts) |->
        [start    |-> starts[i],
         end      |-> IF i <= Len(ends) THEN ends[i].end ELSE starts[i],
         duration |-> IF i <= Len(ends) THEN ends[i].duration ELSE 0]]

\* silence.js detectSilence, lines 234-244: the i-th silence_start is paired
\* with the i-th silence_end; a start without an end runs to totalDuration.
pairSilences(starts, ends, total) ==
    [i \in 1..Len(starts) |->
        [start    |-> starts[i],
         end      |-> IF i <= Len(ends) THEN ends[i].end ELSE total,
         duration |-> IF i <= Len(ends) THEN ends[i].duration
                                        ELSE total - starts[i]]]

\* gapSegment without the clamp of the segment end to totalDuration.
gapSegmentNoClamp(segs, prevEnd, s, total, minSpeech, padding) ==
    LET segStart == Max(0, prevEnd - padding)
        segEnd   == s.start + padding
        dur      == segEnd - segStart
    IN  IF dur >= minSpeech
        THEN Append(segs, [index    |-> Len(segs),
                           start    |-> round3(segStart),
                           end      |-> round3(segEnd),
                           duration |-> round3(dur)])
        ELSE segs

\* The body of the loop of lines 250-264 for one silence s.
gapSegment(segs, prevEnd, s, total, minSpeech, padding) ==
    LET segStart == Max(0, prevEnd - padding)
        segEnd   == Min(total, s.start + padding)
        dur      == segEnd - segStart
    IN  IF dur >= minSpeech
        THEN Append(segs, [index    |-> Len(segs),
                           start    |-> round3(segStart),
                           end      |-> round3(segEnd),
                           duration |-> round3(dur)])
        ELSE segs

\* speechLoop with prevEnd set to the start of the silence instead of its end.
RECURSIVE speechLoopPrevStart(_, _, _, _, _, _, _)
speechLoopPrevStart(sil, i, prevEnd, segs, total, minSpeech, padding) ==
    IF i > Len(sil)
    THEN [segments |-> segs, prevEnd |-> prevEnd]
    ELSE speechLoopPrevStart(sil, i + 1, sil[i].start,
                    gapSegment(segs, prevEnd, sil[i], total, minSpeech, padding),
                    total, minSpeech, padding)

\* speechLoop that never advances prevEnd.
RECURSIVE speechLoopKeepPrev(_, _, _, _, _, _, _)
speechLoopKeepPrev(sil, i, prevEnd, segs, total, minSpeech, padding) ==
    IF i > Len(sil)
    THEN [segments |-> segs, prevEnd |-> prevEnd]
    ELSE speechLoopKeepPrev(sil, i + 1, prevEnd,
                    gapSegment(segs, prevEnd, sil[i], total, minSpeech, padding),
                    total, minSpeech, padding)

RECURSIVE speechLoop(_, _, _, _, _, _, _)
speechLoop(sil, i, prevEnd, segs, total, minSpeech, padding) ==
    IF i > Len(sil)
    THEN [segments |-> segs, prevEnd |-> prevEnd]
    ELSE speechLoop(sil, i + 1, sil[i].end,
                    gapSegment(segs, prevEnd, sil[i], total, minSpeech, padding),
                    total, minSpeech, padding)

\* trailingSegment that starts at prevEnd, without the padding.
trailingSegmentNoPad(segs, prevEnd, total, minSpeech, padding) ==
    IF prevEnd < total
    THEN LET segStart == prevEnd
             dur      == total - segStart
         IN  IF dur >= minSpeech
             THEN Append(segs, [index    |-> Len(segs),
                                start    |-> round3(segStart),
                                end      |-> round3(total),
                                duration |-> round3(dur)])
             ELSE segs
    ELSE segs

\* Lines 266-278: trailing speech after the last silence.
trailingSegment(segs, prevEnd, total, minSpeech, padding) ==
    IF prevEnd < total
    THEN LET segStart == Max(0, prevEnd - padding)
             dur      == total - segStart
         IN  IF dur >= minSpeech
             THEN Append(segs, [index    |-> Len(segs),
                                start    |-> round3(segStart),
                                end      |-> round3(total),
                                duration |-> round3(dur)])
             ELSE segs
    ELSE segs

\* Lines 225-280.  lg.duration is the parsed "Duration:" line (absent: <<>>,
\* totalDuration stays 0).
detectSilence(lg, minSpeech, padding) ==
    LET total == IF lg.duration = None THEN 0 ELSE lg.duration[1]
        sil   == pairSilences(lg.starts, lg.ends, total)
        loop  == speechLoop(sil, 1, 0, <<>>, total, minSpeech, padding)
    IN  [segments      |-> trailingSegment(loop.segments, loop.prevEnd, total,
                                           minSpeech, padding),
         silences      |-> sil,
         totalDuration |-> total]

\* ------------------------------------------------------- segmenter inputs
\* Instants (ticks) at which the silence log may report a start or an end.
TimePoints == {0, 2000, 9000, 20004, 27006, 35004, 40000}
\* The parsed "Duration:" line: absent, or 4 s.
LogDurations == {None, Some(40000)}

IncSeqs(k) == {p \in [1..k -> TimePoints] : \A i \in 1..(k - 1) : p[i] < p[i + 1]}

RemoveAt(s, d) == [i \in 1..(Len(s) - 1) |-> IF i < d THEN s[i] ELSE s[i + 1]]

\* The log of n silences at the instants p, with the d-th silence_end line
\* lost (d = 0: none lost) and the Duration line present or not.
MakeLog(p, n, d, dur) ==
    LET allEnds == [i \in 1..n |-> [end |-> p[2 * i],
                                    duration |-> p[2 * i] - p[2 * i - 1]]]
    IN  [duration |-> dur,
         starts   |-> [i \in 1..n |-> p[2 * i - 1]],
         ends     |-> IF d = 0 THEN allEnds ELSE RemoveAt(allEnds, d)]

\* ffmpeg reports only silences that last at least d = minSilence.
Logs(minSilence) ==
    UNION {{MakeLog(p, n, d, dur) :
                p \in {q \in IncSeqs(2 * n) :
                          \A i \in 1..n : q[2 * i] - q[2 * i - 1] >= minSilence},
                d \in 0..n,
                dur \in LogDurations} : n \in 0..MaxSilences}

\* A recording of k silences of 1 s after every 2 s of speech.
RegularLog(k) ==
    [duration |-> Some(10000 * (4 * k + 2)),
     starts   |-> [i \in 1..k |-> 10000 * (4 * i - 2)],
     ends     |-> [i \in 1..k |-> [end |-> 10000 * (4 * i - 1), duration |-> 10000]]]

\* Scenario S1: 10 s, silences 2.0-3.0 and 6.0-7.0.  Scenario S2: the same
\* log with the second silence_end line missing.
S1Log == RegularLog(2)
S2Log == [S1Log EXCEPT !.ends = <<S1Log.ends[1]>>]
ScenarioLogs == {S1Log, S2Log}

\* readSettings (app.js 79-89) and the padding parameter of detectSilence
\* (default 0.05 s, silence.js 203).
DefaultPadding == 500
DefaultMinSpeech == 3000
DefaultMinSilence == 7000
DefaultThreshold == 60
DefaultFps == 25
DefaultSettings == [minSilence |-> DefaultMinSilence, minSpeech |-> DefaultMinSpeech,
                    padding |-> DefaultPadding, similarityThreshold |-> DefaultThreshold,
                    fps |-> DefaultFps, whisperModel |-> "small"]
SegSettings ==
    [minSilence : {2000, DefaultMinSilence}, minSpeech : {1000, DefaultMinSpeech},
     padding : {DefaultPadding, 5000}, similarityThreshold : {DefaultThreshold},
     fps : {DefaultFps}, whisperModel : {"small"}]

\* state.filename as a sequence of characters.
DefaultFilename == <<"t", ".", "m", "p", "4">>

\* Nothing extracted, rendered or downloaded yet.
NoOutputs ==
    /\ error = None
    /\ renders = <<>>
    /\ cutBlob = None
    /\ edl = None
    /\ xml = None

\* The WAV of each of n segments extracted, each transcription without
\* chunks and none failed.
AllExtracted(n) ==
    /\ wavBlobs = [i \in 1..n |-> i - 1]
    /\ chunks = [i \in 1..n |-> <<>>]
    /\ failed = {}

\* A file as startPipeline receives it: the id tells the files of a page
\* session apart, large says whether its size exceeds the 500 MB limit of
\* writeFile.
OtherFilename == <<"u", ".", "m", "p", "4">>
RunNames == <<DefaultFilename, OtherFilename, <<"v", ".", "m", "p", "3">>,
              <<"w", ".", "w", "a", "v">>>>
RunFile(k, large) == [id |-> k, name |-> RunNames[k], large |-> large]
SmallFile == RunFile(1, FALSE)

\* Paths in the virtual filesystem of the engine.
InputName == [dir |-> "", name |-> <<"i", "n", "p", "u", "t">>]
MountPoint == "/workerfs"
MountedPath(f) == [dir |-> MountPoint, name |-> f.name]

\* writeFile (part_002 244-277): a file of at most 500 MB is written under
\* the given name; a larger one is mounted at /workerfs and its path kept in
\* workerFSPath.  Mounting on a mount point that is in use is refused by the
\* engine's filesystem, and the mount command then throws.
writeFile(name, f, wfs, mnt, inp) ==
    IF ~f.large
    THEN [ok |-> TRUE, workerFSPath |-> wfs, mounted |-> mnt, inputFile |-> Some(f)]
    ELSE IF mnt # None
    THEN [ok |-> FALSE, workerFSPath |-> wfs, mounted |-> mnt, inputFile |-> inp]
    ELSE [ok |-> TRUE, workerFSPath |-> Some(MountedPath(f)), mounted |-> Some(f),
          inputFile |-> inp]

\* getInputPath, part_002 286-288.
getInputPath(name, wfs) == IF wfs # None THEN wfs[1] ELSE name

\* whisperModelMap, app.js 218-225.
ModelId(m) ==
    CASE m = "tiny" -> "Xenova/whisper-tiny"
      [] m = "base" -> "Xenova/whisper-base"
      [] m = "small" -> "Xenova/whisper-small"
      [] m = "medium" -> "Xenova/whisper-medium"
      [] m = "large" -> "Xenova/whisper-large-v3"
      [] OTHER -> "Xenova/whisper-small"

\* A small first file of the page session has been written as "input".
Ingested ==
    /\ file = Some(SmallFile)
    /\ runPath = Some(InputName)
    /\ workerFSPath = None
    /\ mounted = None
    /\ inputFile = Some(SmallFile)
\* The transcriber of the page: loaded for the configured model or not yet
\* loaded, with no call of loadWhisperModel pending.
Transcriber(loaded) ==
    /\ pipeline = IF loaded THEN Some(ModelId(settings.whisperModel)) ELSE None
    /\ pipelineLoading = FALSE
    /\ callers = <<>>
    /\ requested = None
    /\ runs = 1

\* ========================================================= segmenter spec
InitSeg ==
    /\ stage = "Segmenting"
    /\ settings \in SegSettings
    /\ log \in Logs(settings.minSilence) \cup ScenarioLogs
    /\ silences = <<>>
    /\ segments = <<>>
    /\ totalDuration = 0
    /\ transcription = <<>>
    /\ groups = <<>>
    /\ is_best = <<>>
    /\ ai_scores = <<>>
    /\ bestTakes = <<>>
    /\ suggestedOrder = <<>>
    /\ finalDuration = 0
    /\ timeline = <<>>
    /\ lastOp = NoOp
    /\ lastReply = None
    /\ filename = DefaultFilename
    /\ AllExtracted(0)
    /\ NoOutputs
    /\ Ingested
    /\ inputPath = None
    /\ Transcriber(FALSE)

\* DetectSilence without the no-speech exit.
DetectSilenceNoExit ==
    /\ stage = "Segmenting"
    /\ LET detection == detectSilence(log, settings.minSpeech, settings.padding)
       IN  /\ segments' = detection.segments
           /\ silences' = detection.silences
           /\ totalDuration' = detection.totalDuration
           /\ stage' = "Extracting"
           /\ is_best' = [i \in 1..Len(detection.segments) |-> FALSE]
           /\ ai_scores' = [i \in 1..Len(detection.segments) |-> None]
    /\ transcription' = <<>>
    /\ chunks' = <<>>
    /\ failed' = {}
    /\ wavBlobs' = <<>>
    /\ UNCHANGED <<settings, log, filename, pageVars, error>>
    /\ UNCHANGED <<groups, bestTakes, suggestedOrder, finalDuration, timeline,
                   lastOp, lastReply>>
    /\ UNCHANGED <<renders, cutBlob, edl, xml>>

\* startPipeline, app.js 184-196: silence detection, then the no-speech exit.
DetectSilence ==
    /\ stage = "Segmenting"
    /\ LET detection == detectSilence(log, settings.minSpeech, settings.padding)
       IN  /\ segments' = detection.segments
           /\ silences' = detection.silences
           /\ totalDuration' = detection.totalDuration
           /\ stage' = IF detection.segments = <<>> THEN "Failed" ELSE "Extracting"
           /\ error' = IF detection.segments = <<>> THEN Some("NoSpeech") ELSE error
           \* the new segment objects carry neither is_best and ai_scores
           \* nor a transcription
           /\ is_best' = [i \in 1..Len(detection.segments) |-> FALSE]
           /\ ai_scores' = [i \in 1..Len(detection.segments) |-> None]
           \* state.wavBlobs = [] (app.js 201), after the no-speech exit
           /\ wavBlobs' = IF detection.segments = <<>> THEN wavBlobs ELSE <<>>
    /\ transcription' = <<>>
    /\ chunks' = <<>>
    /\ failed' = {}
    /\ UNCHANGED <<settings, log, filename, pageVars>>
    /\ UNCHANGED <<groups, bestTakes, suggestedOrder, finalDuration, timeline,
                   lastOp, lastReply>>
    /\ UNCHANGED <<renders, cutBlob, edl, xml>>

NextSeg == DetectSilence

SpecSeg == InitSeg /\ [][NextSeg]_vars

\* ------------------------------------------------- segmenter properties
Segmented == stage \in {"Extracting", "Failed"}

Abs(x) == IF x < 0 THEN 0 - x ELSE x

OrderedNoOverlap ==
    \A i \in 1..(Len(segments) - 1) :
        /\ segments[i].start < segments[i + 1].start
        /\ segments[i].end <= segments[i + 1].start

\* C7 as stated: consecutive segments are strictly ordered by start and never
\* overlap, for every silence log and every padding value.
C7_Original == Segmented => OrderedNoOverlap

\* C7 amended: consecutive segments are strictly ordered by start and never
\* overlap whenever 2 * padding <= min_silence (every reported silence lasts
\* at least min_silence); with a larger padding they may overlap.
C7_OrderedWhenPaddingFits ==
    (Segmented /\ 2 * settings.padding <= settings.minSilence) => OrderedNoOverlap

C7_Witness ==
    /\ stage = "Extracting"
    /\ 2 * settings.padding <= settings.minSilence
    /\ Len(segments) = 3

\* C8: every emitted segment has start < end, a duration within 1 ms of
\* end - start, lies inside [0, total_duration], and its index is its
\* position in the list.
C8_SegmentWellFormed ==
    Segmented =>
        \A i \in 1..Len(segments) :
            /\ segments[i].start < segments[i].end
            /\ Abs(segments[i].duration - (segments[i].end - segments[i].start)) <= 10
            /\ 0 <= segments[i].start
            /\ segments[i].end <= totalDuration
            /\ segments[i].index = i - 1

C8_Witness ==
    /\ stage = "Extracting"
    /\ Len(segments) >= 2
    /\ \E i \in 1..Len(segments) :
          segments[i].duration # segments[i].end - segments[i].start

\* C9: the sum of the durations of the N emitted segments is at most
\* total_duration + N * 2 * padding.
C9_DurationSum ==
    Segmented =>
        SumSeq([i \in 1..Len(segments) |-> segments[i].duration])
            <= totalDuration + Len(segments) * 2 * settings.padding

C9_Witness ==
    /\ stage = "Extracting"
    /\ Len(segments) >= 2
    /\ SumSeq([i \in 1..Len(segments) |-> segments[i].duration]) > totalDuration

\* The candidate intervals of the segmenter, one per silence and one after
\* the last silence, read off the paired silences.
Candidates ==
    [i \in 1..(Len(silences) + 1) |->
        LET prev == IF i = 1 THEN 0 ELSE silences[i - 1].end
            last == i > Len(silences)
        IN  [start   |-> Max(0, prev - settings.padding),
             end     |-> IF last THEN totalDuration
                         ELSE Min(totalDuration, silences[i].start + settings.padding),
             offered |-> (~last) \/ prev < totalDuration]]
IsEmitted(c) == c.offered /\ c.end - c.start >= settings.minSpeech
Intervals(segs) == [i \in 1..Len(segs) |-> <<segs[i].start, segs[i].end>>]
DefaultSegmenting ==
    /\ settings.minSpeech = DefaultMinSpeech
    /\ settings.padding = DefaultPadding

\* C11: the segments are the padded gaps between the silences: the candidate
\* before each silence, from max(0, prev_end - padding) to
\* min(total_duration, s.start + padding), and the trailing candidate up to
\* total_duration when prev_end < total_duration, each emitted iff it is at
\* least min_speech long, in order and rounded to the millisecond; for
\* scenario S1 these are [0.000, 2.050], [2.950, 6.050], [6.950, 10.000].
C11_PaddedGaps ==
    Segmented =>
        /\ LET emitted == SelectSeq(Candidates, IsEmitted)
           IN  Intervals(segments) =
                   [i \in 1..Len(emitted) |->
                       <<round3(emitted[i].start), round3(emitted[i].end)>>]
        /\ (log = S1Log /\ DefaultSegmenting) =>
               Intervals(segments) =
                   <<<<0, 20500>>, <<29500, 60500>>, <<69500, 100000>>>>

C11_Witness ==
    /\ stage = "Extracting"
    /\ log = S1Log
    /\ DefaultSegmenting
    /\ Len(segments) = 3

\* C12 as stated: in scenario S2 the unmatched silence ends at
\* total_duration and the output contains [2.950, 6.050] followed by a
\* trailing segment [5.950, 10.000].
C12_Original ==
    (Segmented /\ log = S2Log /\ DefaultSegmenting) =>
        /\ silences[2].end = totalDuration
        /\ \E i \in 1..(Len(segments) - 1) :
              /\ Intervals(segments)[i] = <<29500, 60500>>
              /\ Intervals(segments)[i + 1] = <<59500, 100000>>

\* C12 amended: in scenario S2 the unmatched silence ends at total_duration
\* 10.000, so nothing follows it: the output is exactly [0.000, 2.050],
\* [2.950, 6.050] and there is no trailing segment.
C12_UnmatchedRunsToEnd ==
    (Segmented /\ log = S2Log /\ DefaultSegmenting) =>
        /\ totalDuration = 100000
        /\ silences[2].end = totalDuration
        /\ Intervals(segments) = <<<<0, 20500>>, <<29500, 60500>>>>

C12_Witness ==
    /\ stage = "Extracting"
    /\ log = S2Log
    /\ DefaultSegmenting
    /\ Len(silences) = 2
    /\ Len(segments) = 2

\* ================================================================== grouper
\* Texts are sequences of one-character strings.
lowerChar(c) == CASE c = "A" -> "a" [] c = "B" -> "b" [] c = "C" -> "c"
                  [] c = "D" -> "d" [] c = "X" -> "x" [] c = "Y" -> "y"
                  [] c = "M" -> "m" [] c = "O" -> "o" [] c = "V" -> "v"
                  [] OTHER -> c
toLowerCase(t) == [i \in 1..Len(t) |-> lowerChar(t[i])]

RECURSIVE trimStart(_)
trimStart(t) == IF t # <<>> /\ Head(t) = " " THEN trimStart(Tail(t)) ELSE t
RECURSIVE trimEnd(_)
trimEnd(t) == IF t # <<>> /\ t[Len(t)] = " "
              THEN trimEnd(SubSeq(t, 1, Len(t) - 1)) ELSE t
trim(t) == trimEnd(trimStart(t))

\* app.js 591-604.  Row i of the dp table is the sequence dp[i][0..n].
RECURSIVE levRow(_, _, _, _, _)
levRow(prev, ai, b, i, row) ==
    IF Len(row) = Len(b) + 1
    THEN row
    ELSE LET j == Len(row)
         IN  levRow(prev, ai, b, i,
                    Append(row, IF ai = b[j]
                                THEN prev[j]
                                ELSE 1 + Min(prev[j + 1], Min(row[j], prev[j]))))

RECURSIVE levRows(_, _, _, _)
levRows(a, b, i, prev) ==
    IF i > Len(a) THEN prev
    ELSE levRows(a, b, i + 1, levRow(prev, a[i], b, i, <<i>>))

levenshtein(a, b) == levRows(a, b, 1, [j \in 1..(Len(b) + 1) |-> j - 1])[Len(b) + 1]

\* app.js 578-589.  The ratio 1 - dist / maxLen is returned as the fraction
\* num / den.
textSimilarity(a0, b0) ==
    IF a0 = <<>> \/ b0 = <<>>
    THEN [num |-> 0, den |-> 1]
    ELSE LET a == trim(toLowerCase(a0))
             b == trim(toLowerCase(b0))
             maxLen == Max(Len(a), Len(b))
         IN  IF a = b THEN [num |-> 1, den |-> 1]
             ELSE IF maxLen = 0 THEN [num |-> 1, den |-> 1]
             ELSE [num |-> maxLen - levenshtein(a, b), den |-> maxLen]

\* textSimilarity(a, b) >= threshold, the threshold being given in percent.
similarEnough(a, b, threshold) ==
    LET sim == textSimilarity(a, b) IN sim.num * 100 >= threshold * sim.den

\* The inner loop of groupSimilarTakes without the test used.has(j).
RECURSIVE scanTakesIgnoreUsed(_, _, _, _, _, _)
scanTakesIgnoreUsed(texts, textI, j, used, takes, threshold) ==
    IF j > Len(texts) THEN [takes |-> takes, used |-> used]
    ELSE IF similarEnough(textI, texts[j], threshold)
         THEN scanTakesIgnoreUsed(texts, textI, j + 1, used \cup {j},
                                  Append(takes, j - 1), threshold)
         ELSE scanTakesIgnoreUsed(texts, textI, j + 1, used, takes, threshold)

\* app.js 558-565: the inner loop over j > i.  A take is recorded by its
\* segment index (segments[j].index = j).
RECURSIVE scanTakes(_, _, _, _, _, _)
scanTakes(texts, textI, j, used, takes, threshold) ==
    IF j > Len(texts) THEN [takes |-> takes, used |-> used]
    ELSE IF j \notin used /\ similarEnough(textI, texts[j], threshold)
         THEN scanTakes(texts, textI, j + 1, used \cup {j},
                        Append(takes, j - 1), threshold)
         ELSE scanTakes(texts, textI, j + 1, used, takes, threshold)

\* app.js 567-568: texts.reduce((a, b) => a.length >= b.length ? a : b, "").
RECURSIVE longestText(_, _)
longestText(ts, acc) ==
    IF ts = <<>> THEN acc
    ELSE longestText(Tail(ts), IF Len(acc) >= Len(Head(ts)) THEN acc ELSE Head(ts))

\* app.js 548-571: the outer loop.
RECURSIVE groupLoop(_, _, _, _, _)
groupLoop(texts, i, used, gs, threshold) ==
    IF i > Len(texts) THEN gs
    ELSE IF i \in used THEN groupLoop(texts, i + 1, used, gs, threshold)
    ELSE LET scan == scanTakes(texts, texts[i], i + 1, used \cup {i},
                               <<i - 1>>, threshold)
             group == [group_id     |-> Len(gs),
                       takes        |-> scan.takes,
                       text_summary |-> longestText(
                           [k \in 1..Len(scan.takes) |-> texts[scan.takes[k] + 1]],
                           <<>>),
                       take_count   |-> Len(scan.takes)]
         IN  groupLoop(texts, i + 1, scan.used, Append(gs, group), threshold)

\* app.js 544-574.  texts[i] is segments[i].transcription.text.
groupSimilarTakes(texts, threshold) == groupLoop(texts, 1, {}, <<>>, threshold)

\* --------------------------------------------------------- grouper inputs
\* The n segments found in RegularLog(n - 1).
RegularSegments(n) ==
    detectSilence(RegularLog(n - 1), DefaultMinSpeech, DefaultPadding)

\* Transcriptions as transcribeBlob stores them (trimmed).
GroupTexts == {<<>>, <<"a", "b">>, <<"A", "b">>, <<"a", "b", "c">>,
               <<"a", "b", "c", "d">>, <<"x", "y">>}
GroupThresholds == {0, 50, DefaultThreshold, 100}
\* Scenario S3: "hello world", "hello world.", "completely different".
S3Texts ==
    <<<<"h", "e", "l", "l", "o", " ", "w", "o", "r", "l", "d">>,
      <<"h", "e", "l", "l", "o", " ", "w", "o", "r", "l", "d", ".">>,
      <<"c", "o", "m", "p", "l", "e", "t", "e", "l", "y", " ", "d", "i", "f", "f", "e", "r", "e", "n", "t">>>>
\* The transcriptions of n segments.
GroupInputs(n) == [1..n -> GroupTexts] \cup (IF n = 3 THEN {S3Texts} ELSE {})

\* ============================================================ grouper spec
InitGroup ==
    /\ stage = "Grouping"
    /\ \E th \in GroupThresholds :
          settings = [DefaultSettings EXCEPT !.similarityThreshold = th]
    /\ \E n \in 1..MaxSegs :
          /\ log = RegularLog(n - 1)
          /\ silences = RegularSegments(n).silences
          /\ segments = RegularSegments(n).segments
          /\ totalDuration = RegularSegments(n).totalDuration
          /\ transcription \in GroupInputs(n)
          /\ is_best = [i \in 1..n |-> FALSE]
          /\ ai_scores = [i \in 1..n |-> None]
          /\ AllExtracted(n)
    /\ filename = DefaultFilename
    /\ NoOutputs
    /\ Ingested
    /\ inputPath = None
    /\ Transcriber(TRUE)
    /\ groups = <<>>
    /\ bestTakes = <<>>
    /\ suggestedOrder = <<>>
    /\ finalDuration = 0
    /\ timeline = <<>>
    /\ lastOp = NoOp
    /\ lastReply = None

\* startPipeline, app.js 242-246.
GroupTakes ==
    /\ stage = "Grouping"
    /\ groups' = groupSimilarTakes(transcription, settings.similarityThreshold)
    /\ stage' = "Scoring"
    /\ UNCHANGED <<settings, log, transcription, segVars, is_best, ai_scores,
                   bestTakes, suggestedOrder, finalDuration, timeline, lastOp, lastReply>>
    /\ UNCHANGED <<filename, pageVars, error, audioVars, outVars>>

NextGroup == GroupTakes

SpecGroup == InitGroup /\ [][NextGroup]_vars

\* ---------------------------------------------------- grouper properties
TakesOf(gs) == UNION {{gs[g].takes[k] : k \in 1..Len(gs[g].takes)} : g \in 1..Len(gs)}

\* C6: the groups partition the segment list: every segment is a take of
\* exactly one group, no group is empty, group_id is the position of the
\* group, groups come in the order of their earliest member, and the takes
\* of a group are in ascending segment index order.
C6_GroupsPartition ==
    stage = "Scoring" =>
        /\ \A i \in 1..Len(segments) :
              Cardinality({<<g, k>> \in (1..Len(groups)) \X (1..Len(segments)) :
                              /\ k <= Len(groups[g].takes)
                              /\ groups[g].takes[k] = segments[i].index}) = 1
        /\ TakesOf(groups) = {segments[i].index : i \in 1..Len(segments)}
        /\ \A g \in 1..Len(groups) :
              /\ groups[g].takes # <<>>
              /\ groups[g].group_id = g - 1
              /\ \A k \in 1..(Len(groups[g].takes) - 1) :
                    groups[g].takes[k] < groups[g].takes[k + 1]
        /\ \A g \in 1..(Len(groups) - 1) :
              groups[g].takes[1] < groups[g + 1].takes[1]

C6_Witness ==
    /\ stage = "Scoring"
    /\ Len(groups) = 2
    /\ groups[1].takes = <<0, 2>>
    /\ groups[2].takes = <<1>>

\* ========================================================= oracle scoring
Put(f, k, v) == [x \in (DOMAIN f) \cup {k} |-> IF x = k THEN v ELSE f[x]]

\* evaluate.js 149-157: scoreLookup[takeEval.segment_index] = {...}.  The
\* key is the segment_index field as given (absent: <<>>); of the five score
\* fields the model keeps overall.
RECURSIVE scoreTakes(_, _)
scoreTakes(takeEvals, scoreLookup) ==
    IF takeEvals = <<>> THEN scoreLookup
    ELSE scoreTakes(Tail(takeEvals),
                    Put(scoreLookup, Head(takeEvals).segment_index,
                        [overall |-> Head(takeEvals).overall]))

\* bestOfEntry taking best_take_index as a segment index in every case.
bestOfEntryVerbatim(gs, evalGroup, bestPerGroup) ==
    LET gid == evalGroup.group_id
        bestIdx == evalGroup.best_take_index
    IN  IF gid < Len(gs) /\ bestIdx # None
        THEN Put(bestPerGroup, gid, bestIdx[1])
        ELSE bestPerGroup

\* evaluate.js 159-166 for one evaluation entry.
bestOfEntry(gs, evalGroup, bestPerGroup) ==
    LET gid == evalGroup.group_id
        bestIdx == evalGroup.best_take_index
    IN  IF gid < Len(gs) /\ bestIdx # None
        THEN LET groupTakes == gs[gid + 1].takes
             IN  IF bestIdx[1] < Len(groupTakes)
                 THEN Put(bestPerGroup, gid, groupTakes[bestIdx[1] + 1])
                 ELSE Put(bestPerGroup, gid, bestIdx[1])
        ELSE bestPerGroup

\* evaluate.js 145-167: the loop over evaluation.evaluations || [].
RECURSIVE evalLoop(_, _, _, _)
evalLoop(gs, evs, scoreLookup, bestPerGroup) ==
    IF evs = <<>>
    THEN [scoreLookup |-> scoreLookup, bestPerGroup |-> bestPerGroup]
    ELSE LET eg == Head(evs)
         IN  evalLoop(gs, Tail(evs),
                      scoreTakes(IF eg.takes = None THEN <<>> ELSE eg.takes[1],
                                 scoreLookup),
                      bestOfEntry(gs, eg, bestPerGroup))

\* The group (position) that holds the take with segment index idx.
GroupOfTake(gs, idx) ==
    CHOOSE g \in 1..Len(gs) : \E k \in 1..Len(gs[g].takes) : gs[g].takes[k] = idx
InSomeGroup(gs, idx) ==
    \E g \in 1..Len(gs) : \E k \in 1..Len(gs[g].takes) : gs[g].takes[k] = idx

\* markBest without the comparison with the take's own index.
markBestWholeGroup(gs, best0, bestPerGroup) ==
    [i \in DOMAIN best0 |->
        IF InSomeGroup(gs, i - 1)
        THEN gs[GroupOfTake(gs, i - 1)].group_id \in DOMAIN bestPerGroup
        ELSE best0[i]]

\* evaluate.js 170-177: take.is_best = (take.index === bestPerGroup[gid]) and
\* the scores, for every take of every group.
markBest(gs, best0, bestPerGroup) ==
    [i \in DOMAIN best0 |->
        IF InSomeGroup(gs, i - 1)
        THEN LET gid == gs[GroupOfTake(gs, i - 1)].group_id
             IN  gid \in DOMAIN bestPerGroup /\ bestPerGroup[gid] = i - 1
        ELSE best0[i]]

attachScores(gs, scores0, scoreLookup) ==
    [i \in DOMAIN scores0 |->
        IF InSomeGroup(gs, i - 1) /\ Some(i - 1) \in DOMAIN scoreLookup
        THEN Some(scoreLookup[Some(i - 1)])
        ELSE scores0[i]]

\* groups.map((_, i) => i)
identityOrder(gs) == [i \in 1..Len(gs) |-> i - 1]

\* evaluate.js 183-191.
RECURSIVE orderedBest(_, _, _, _)
orderedBest(gs, order, bestPerGroup, acc) ==
    IF order = <<>> THEN acc
    ELSE LET gid == Head(order)
             found == gid < Len(gs) /\ gid \in DOMAIN bestPerGroup
                      /\ \E k \in 1..Len(gs[gid + 1].takes) :
                            gs[gid + 1].takes[k] = bestPerGroup[gid]
         IN  orderedBest(gs, Tail(order), bestPerGroup,
                         IF found THEN Append(acc, bestPerGroup[gid]) ELSE acc)

\* evaluate.js 141-199.  An empty suggested_order array is truthy in
\* JavaScript, so only an absent suggested_order is replaced by the identity.
applyEvaluation(gs, best0, scores0, evaluation) ==
    LET loop == evalLoop(gs, IF evaluation.evaluations = None THEN <<>>
                             ELSE evaluation.evaluations[1], <<>>, <<>>)
        suggested == IF evaluation.suggested_order = None
                     THEN identityOrder(gs) ELSE evaluation.suggested_order[1]
    IN  [bestTakes      |-> orderedBest(gs, suggested, loop.bestPerGroup, <<>>),
         is_best        |-> markBest(gs, best0, loop.bestPerGroup),
         ai_scores      |-> attachScores(gs, scores0, loop.scoreLookup),
         suggestedOrder |-> suggested,
         bestPerGroup   |-> loop.bestPerGroup]

\* ============================================================== edit list
\* bestTakes.reduce((sum, t) => sum + t.duration, 0); takes are segment
\* indices.
sumDurations(segs, takes) == SumSeq([k \in 1..Len(takes) |-> segs[takes[k] + 1].duration])

\* timelineFrom without pos += take.duration.
RECURSIVE timelineFromKeepPos(_, _, _, _)
timelineFromKeepPos(segs, takes, pos, acc) ==
    IF takes = <<>> THEN acc
    ELSE LET take == segs[Head(takes) + 1]
         IN  timelineFromKeepPos(segs, Tail(takes), pos,
                          Append(acc, [index          |-> take.index,
                                       start          |-> take.start,
                                       end            |-> take.end,
                                       duration       |-> take.duration,
                                       timeline_start |-> round3(pos),
                                       timeline_end   |-> round3(pos + take.duration)]))

\* app.js 294-310.
RECURSIVE timelineFrom(_, _, _, _)
timelineFrom(segs, takes, pos, acc) ==
    IF takes = <<>> THEN acc
    ELSE LET take == segs[Head(takes) + 1]
         IN  timelineFrom(segs, Tail(takes), pos + take.duration,
                          Append(acc, [index          |-> take.index,
                                       start          |-> take.start,
                                       end            |-> take.end,
                                       duration       |-> take.duration,
                                       timeline_start |-> round3(pos),
                                       timeline_end   |-> round3(pos + take.duration)]))

buildTimeline(segs, takes) == timelineFrom(segs, takes, 0, <<>>)

\* g.takes.find(t => t.is_best): the first best take of a group, if any.
RECURSIVE findBest(_, _)
findBest(takes, best) ==
    IF takes = <<>> THEN None
    ELSE IF best[Head(takes) + 1] THEN Some(Head(takes))
    ELSE findBest(Tail(takes), best)

\* app.js 321-329.
RECURSIVE rebuildBest(_, _, _, _)
rebuildBest(gs, order, best, acc) ==
    IF order = <<>> THEN acc
    ELSE LET gid == Head(order)
         IN  IF gid < 0 \/ gid >= Len(gs)
             THEN rebuildBest(gs, Tail(order), best, acc)
             ELSE rebuildBest(gs, Tail(order), best,
                              acc \o findBest(gs[gid + 1].takes, best))

\* handleSelectTake without state.bestTakes = [] before the rebuild.
handleSelectTakeNoReset(gs, segs, st, groupId, segIndex) ==
    IF groupId < 0 \/ groupId >= Len(gs)
    THEN st
    ELSE LET group == gs[groupId + 1]
             best == [i \in DOMAIN st.is_best |->
                        IF \E k \in 1..Len(group.takes) : group.takes[k] = i - 1
                        THEN i - 1 = segIndex
                        ELSE st.is_best[i]]
             order == IF Len(st.suggestedOrder) # 0 THEN st.suggestedOrder
                      ELSE identityOrder(gs)
             takes == rebuildBest(gs, order, best, st.bestTakes)
         IN  [is_best        |-> best,
              bestTakes      |-> takes,
              suggestedOrder |-> st.suggestedOrder,
              finalDuration  |-> sumDurations(segs, takes)]

\* handleSelectTake that sets the chosen take without clearing its siblings.
handleSelectTakeKeepSiblings(gs, segs, st, groupId, segIndex) ==
    IF groupId < 0 \/ groupId >= Len(gs)
    THEN st
    ELSE LET group == gs[groupId + 1]
             best == [i \in DOMAIN st.is_best |->
                        IF \E k \in 1..Len(group.takes) : group.takes[k] = i - 1
                        THEN st.is_best[i] \/ i - 1 = segIndex
                        ELSE st.is_best[i]]
             order == IF Len(st.suggestedOrder) # 0 THEN st.suggestedOrder
                      ELSE identityOrder(gs)
             takes == rebuildBest(gs, order, best, <<>>)
         IN  [is_best        |-> best,
              bestTakes      |-> takes,
              suggestedOrder |-> st.suggestedOrder,
              finalDuration  |-> sumDurations(segs, takes)]

\* handleSelectTake whose loop runs over the takes of every group.
handleSelectTakeAllGroups(gs, segs, st, groupId, segIndex) ==
    IF groupId < 0 \/ groupId >= Len(gs)
    THEN st
    ELSE LET best == [i \in DOMAIN st.is_best |-> i - 1 = segIndex]
             order == IF Len(st.suggestedOrder) # 0 THEN st.suggestedOrder
                      ELSE identityOrder(gs)
             takes == rebuildBest(gs, order, best, <<>>)
         IN  [is_best        |-> best,
              bestTakes      |-> takes,
              suggestedOrder |-> st.suggestedOrder,
              finalDuration  |-> sumDurations(segs, takes)]

\* app.js 312-331 on the session state st = [is_best, bestTakes,
\* suggestedOrder, finalDuration].
handleSelectTake(gs, segs, st, groupId, segIndex) ==
    IF groupId < 0 \/ groupId >= Len(gs)
    THEN st
    ELSE LET group == gs[groupId + 1]
             best == [i \in DOMAIN st.is_best |->
                        IF \E k \in 1..Len(group.takes) : group.takes[k] = i - 1
                        THEN i - 1 = segIndex
                        ELSE st.is_best[i]]
             order == IF Len(st.suggestedOrder) # 0 THEN st.suggestedOrder
                      ELSE identityOrder(gs)
             takes == rebuildBest(gs, order, best, <<>>)
         IN  [is_best        |-> best,
              bestTakes      |-> takes,
              suggestedOrder |-> st.suggestedOrder,
              finalDuration  |-> sumDurations(segs, takes)]

\* ------------------------------------------------------- scoring inputs
SeqsUpTo(S, n) == UNION {[1..k -> S] : k \in 0..n}

\* Oracle replies for the groups gs of n segments.  A group_id of Len(gs)
\* and an index of n are out of range.
\* An entry that names a best take scores every take of the group it names
\* (none for an unknown group); an entry without best_take_index has no
\* takes either.
EvalGroup(gs, gid, bestIdx) ==
    [group_id |-> gid,
     best_take_index |-> bestIdx,
     takes |-> IF bestIdx = None THEN None
               ELSE IF gid >= Len(gs) THEN Some(<<>>)
               ELSE Some([k \in 1..Len(gs[gid + 1].takes) |->
                            [segment_index |-> Some(gs[gid + 1].takes[k]),
                             overall |-> 8]])]
EvalGroups(gs, n) ==
    {EvalGroup(gs, gid, bestIdx) :
        gid \in 0..Len(gs), bestIdx \in {None} \cup {Some(b) : b \in 0..n}}
\* Entries come in the order the prompt lists the groups; a group may be
\* answered more than once, or not at all.
EvalLists(gs, n) ==
    {e \in SeqsUpTo(EvalGroups(gs, n), MaxEvals) :
        \A i \in 1..(Len(e) - 1) : e[i].group_id <= e[i + 1].group_id}
Replies(gs, n) ==
    [evaluations : {None} \cup {Some(e) : e \in EvalLists(gs, n)},
     suggested_order : {None} \cup {Some(o) : o \in SeqsUpTo(0..Len(gs), MaxOrderLen)}]

\* Transcriptions of distinct lines; each segment repeats an earlier line or
\* says the next new one.
Lines == <<<<"a", "b">>, <<"c", "d">>, <<"e", "f">>, <<"g", "h">>, <<"i", "j">>>>
LineTexts(n) ==
    {t \in [1..n -> {Lines[k] : k \in 1..n}] :
        \A i \in 1..n : \E k \in 1..i :
            /\ t[i] = Lines[k]
            /\ \A m \in 1..(k - 1) : \E j \in 1..(i - 1) : t[j] = Lines[m]}

\* ========================================================= edit-list spec
InitEdit ==
    /\ stage = "Scoring"
    /\ settings = DefaultSettings
    /\ \E n \in 1..MaxEditSegs :
          /\ log = RegularLog(n - 1)
          /\ silences = RegularSegments(n).silences
          /\ segments = RegularSegments(n).segments
          /\ totalDuration = RegularSegments(n).totalDuration
          /\ transcription \in LineTexts(n)
          /\ is_best = [i \in 1..n |-> FALSE]
          /\ ai_scores = [i \in 1..n |-> None]
          /\ AllExtracted(n)
    /\ filename = DefaultFilename
    /\ NoOutputs
    /\ Ingested
    /\ inputPath = None
    /\ Transcriber(TRUE)
    /\ groups = groupSimilarTakes(transcription, settings.similarityThreshold)
    /\ bestTakes = <<>>
    /\ suggestedOrder = <<>>
    /\ finalDuration = 0
    /\ timeline = <<>>
    /\ lastOp = NoOp
    /\ lastReply = None

\* startPipeline, app.js 248-285: the reply of evaluateTakes is applied, the
\* final duration computed, the results (with the timeline) shown and the
\* render of the cut file started in the background.
Score(evaluation) ==
    /\ stage = "Scoring"
    /\ LET evalResult == applyEvaluation(groups, is_best, ai_scores, evaluation)
       IN  /\ bestTakes' = evalResult.bestTakes
           /\ suggestedOrder' = evalResult.suggestedOrder
           /\ is_best' = evalResult.is_best
           /\ ai_scores' = evalResult.ai_scores
           /\ finalDuration' = sumDurations(segments, evalResult.bestTakes)
           /\ timeline' = buildTimeline(segments, evalResult.bestTakes)
           /\ renders' = Append(renders, evalResult.bestTakes)
           /\ requested' = Some(evalResult.bestTakes)
    /\ inputPath' = runPath
    /\ stage' = "Ready"
    /\ lastOp' = [NoOp EXCEPT !.op = "score"]
    /\ UNCHANGED <<settings, log, transcription, segVars, groups>>
    /\ UNCHANGED <<filename, error, audioVars, cutBlob, edl, xml>>
    /\ UNCHANGED <<file, runPath, workerFSPath, mounted, inputFile, asrVars, runs>>

ScoreStage ==
    /\ stage = "Scoring"
    /\ \E evaluation \in Replies(groups, Len(segments)) :
          Score(evaluation) /\ lastReply' = None

\* The same step, the reply being kept as history.
ScoreStageRecorded ==
    /\ stage = "Scoring"
    /\ \E evaluation \in Replies(groups, Len(segments)) :
          Score(evaluation) /\ lastReply' = Some(evaluation)

\* evaluate.js 90-133 / app.js 287-291: no key, an HTTP error or an
\* unparsable reply ends the run with an error.
ScoreFail ==
    /\ stage = "Scoring"
    /\ stage' = "Failed"
    /\ lastOp' = [NoOp EXCEPT !.op = "fail"]
    /\ error' = Some("Pipeline")
    /\ UNCHANGED <<settings, log, transcription, segVars, groups, is_best,
                   ai_scores, bestTakes, suggestedOrder, finalDuration,
                   timeline, lastReply>>
    /\ UNCHANGED <<filename, pageVars, audioVars, outVars>>

EditState == [is_best |-> is_best, bestTakes |-> bestTakes,
              suggestedOrder |-> suggestedOrder, finalDuration |-> finalDuration]

\* app.js 312-337, called from the results screen.
SelectTake(groupId, segIndex) ==
    /\ stage = "Ready"
    /\ LET st == handleSelectTake(groups, segments, EditState, groupId, segIndex)
       IN  /\ is_best' = st.is_best
           /\ bestTakes' = st.bestTakes
           /\ suggestedOrder' = st.suggestedOrder
           /\ finalDuration' = st.finalDuration
           /\ timeline' = IF groupId < 0 \/ groupId >= Len(groups)
                          THEN timeline
                          ELSE buildTimeline(segments, st.bestTakes)
    /\ lastOp' = [op |-> "select", groupId |-> groupId, segIndex |-> segIndex,
                  repeated |-> /\ lastOp.op = "select"
                               /\ lastOp.groupId = groupId
                               /\ lastOp.segIndex = segIndex]
    /\ lastReply' = None
    /\ UNCHANGED <<stage, settings, log, transcription, segVars, groups, ai_scores>>
    /\ UNCHANGED <<filename, pageVars, error, audioVars, outVars>>

Override ==
    /\ stage = "Ready"
    /\ \E groupId \in 0..Len(groups), segIndex \in 0..Len(segments) :
          SelectTake(groupId, segIndex)

Next == ScoreStage \/ ScoreFail \/ Override

Spec == InitEdit /\ [][Next]_vars

NextScore == ScoreStageRecorded \/ ScoreFail

SpecScore == InitEdit /\ [][NextScore]_vars

\* Scoring of three segments of which the last two repeat one line: the
\* groups are {0} and {1, 2}, so that in the second group positions and
\* segment indices differ.
InitIndex ==
    /\ stage = "Scoring"
    /\ settings = DefaultSettings
    /\ log = RegularLog(2)
    /\ silences = RegularSegments(3).silences
    /\ segments = RegularSegments(3).segments
    /\ totalDuration = RegularSegments(3).totalDuration
    /\ transcription = <<Lines[1], Lines[2], Lines[2]>>
    /\ is_best = [i \in 1..3 |-> FALSE]
    /\ ai_scores = [i \in 1..3 |-> None]
    /\ AllExtracted(3)
    /\ filename = DefaultFilename
    /\ NoOutputs
    /\ Ingested
    /\ inputPath = None
    /\ Transcriber(TRUE)
    /\ groups = groupSimilarTakes(transcription, settings.similarityThreshold)
    /\ bestTakes = <<>>
    /\ suggestedOrder = <<>>
    /\ finalDuration = 0
    /\ timeline = <<>>
    /\ lastOp = NoOp
    /\ lastReply = None

SpecIndex == InitIndex /\ [][NextScore]_vars

\* ---------------------------------------------------- scoring properties
TakeSet(g) == {groups[g].takes[k] : k \in 1..Len(groups[g].takes)}
BestOf(g) == {t \in TakeSet(g) : is_best[t + 1]}
Count(x, sq) == Cardinality({k \in 1..Len(sq) : sq[k] = x})
SetMax(S) == CHOOSE x \in S : \A y \in S : y <= x

\* The entries of the reply that name group g (zero-based gid = g - 1) and
\* carry a best_take_index; the last of them decides.
ReplyEvals(r) == IF r.evaluations = None THEN <<>> ELSE r.evaluations[1]
EntriesFor(r, g) ==
    {k \in 1..Len(ReplyEvals(r)) :
        /\ ReplyEvals(r)[k].group_id = g - 1
        /\ ReplyEvals(r)[k].best_take_index # None}
Resolves(r, g) ==
    /\ EntriesFor(r, g) # {}
    /\ LET b == ReplyEvals(r)[SetMax(EntriesFor(r, g))].best_take_index[1]
       IN  b < Len(groups[g].takes) \/ b \in TakeSet(g)

Scored == stage = "Ready" /\ lastOp.op = "score" /\ lastReply # None

\* C1 as stated: after apply_evaluation every group has exactly one take with
\* is_best = true, whatever reply was accepted.
C1_Original == Scored => \A g \in 1..Len(groups) : Cardinality(BestOf(g)) = 1

\* C1 amended: after apply_evaluation every group has at most one take with
\* is_best = true, and exactly one if and only if the last entry of the reply
\* for that group that carries a best_take_index gives a position inside the
\* group's takes or the segment index of one of its takes.
C1_AtMostOneBest ==
    Scored =>
        \A g \in 1..Len(groups) :
            /\ Cardinality(BestOf(g)) <= 1
            /\ Cardinality(BestOf(g)) = 1 <=> Resolves(lastReply[1], g)

C1_Witness ==
    /\ Scored
    /\ Len(groups) = 2
    /\ \A g \in 1..Len(groups) : Cardinality(BestOf(g)) = 1

BestTakesAreBest ==
    \A k \in 1..Len(bestTakes) :
        \E g \in 1..Len(groups) :
            /\ bestTakes[k] \in TakeSet(g)
            /\ BestOf(g) = {bestTakes[k]}

NoRepeat(sq) == \A i, j \in 1..Len(sq) : sq[i] = sq[j] => i = j

\* C2 as stated: after apply_evaluation len(best_takes) <= len(groups), and
\* every best take is the one take of its group with is_best = true, for any
\* suggested_order.
C2_Original == Scored => (Len(bestTakes) <= Len(groups) /\ BestTakesAreBest)

\* C2 amended: after apply_evaluation len(best_takes) <= len(suggested_order),
\* and len(best_takes) <= len(groups) when suggested_order repeats no group
\* id; every best take is the one take of its group with is_best = true.
C2_BestTakesBounded ==
    Scored =>
        /\ Len(bestTakes) <= Len(suggestedOrder)
        /\ NoRepeat(suggestedOrder) => Len(bestTakes) <= Len(groups)
        /\ BestTakesAreBest

C2_Witness ==
    /\ Scored
    /\ lastReply[1].suggested_order = Some(<<1, 0>>)
    /\ bestTakes = <<1, 0>>

\* --------------------------------------------------- override properties
ValidSelect(groupId, segIndex) ==
    groupId < Len(groups) /\ segIndex \in TakeSet(groupId + 1)

\* C3: a select_take(g, s) that repeats the previous select_take(g, s) leaves
\* is_best, best_takes, suggested_order and final_duration as they were.
C3_SelectIdempotent ==
    [][(lastOp'.op = "select" /\ lastOp'.repeated)
          => UNCHANGED <<is_best, bestTakes, suggestedOrder, finalDuration>>]_vars

C3_Witness ==
    /\ stage = "Ready"
    /\ lastOp.op = "select"
    /\ lastOp.repeated
    /\ ValidSelect(lastOp.groupId, lastOp.segIndex)
    /\ Len(bestTakes) = 2

\* C4: a select_take whose group does not exist, or whose segment is not a
\* take of that group, leaves is_best, best_takes and final_duration
\* unchanged.
C4_InvalidSelectNoOp ==
    [][(lastOp'.op = "select" /\ ~ValidSelect(lastOp'.groupId, lastOp'.segIndex))
          => UNCHANGED <<is_best, bestTakes, finalDuration>>]_vars

EffectiveOrder == IF Len(suggestedOrder) # 0 THEN suggestedOrder
                  ELSE [i \in 1..Len(groups) |-> i - 1]

Selected == stage = "Ready" /\ lastOp.op = "select"
            /\ ValidSelect(lastOp.groupId, lastOp.segIndex)

C10_TimelineContiguous ==
    stage = "Ready" =>
        /\ Len(timeline) = Len(bestTakes)
        /\ \A i \in 1..Len(timeline) :
              /\ timeline[i].index = bestTakes[i]
              /\ timeline[i].timeline_end - timeline[i].timeline_start
                    = round3(segments[bestTakes[i] + 1].duration)
        /\ timeline # <<>> => timeline[1].timeline_start = 0
        /\ \A i \in 1..(Len(timeline) - 1) :
              timeline[i + 1].timeline_start = timeline[i].timeline_end

C10_Witness ==
    /\ stage = "Ready"
    /\ lastOp.op = "select"
    /\ Len(timeline) = 2
    /\ timeline[2].timeline_start > 0

\* ================================================================== exports
\* frames with the fraction dropped instead of rounded.
framesFloor(seconds, fps) == (seconds * fps) \div 10000

\* Math.round(seconds * fps) = floor(seconds * fps + 0.5): the nearest frame,
\* a half rounding up (seconds in ticks).
frames(seconds, fps) == (seconds * fps + 5000) \div 10000

\* String(n).padStart(k, "0") for k = 2 and k = 3.
pad2(n) == IF n < 10 THEN "0" \o ToString(n) ELSE ToString(n)
pad3(n) == IF n < 10 THEN "00" \o ToString(n)
           ELSE IF n < 100 THEN "0" \o ToString(n) ELSE ToString(n)

\* app.js 1101-1109.
timecodeFromSeconds(seconds, fps) ==
    LET totalFrames == frames(seconds, fps)
        ff == totalFrames % fps
        totalSec == totalFrames \div fps
        ss == totalSec % 60
        mm == (totalSec \div 60) % 60
        hh == totalSec \div 3600
    IN  pad2(hh) \o ":" \o pad2(mm) \o ":" \o pad2(ss) \o ":" \o pad2(ff)

\* app.js 1015-1031: the edit of the i-th best take (i zero-based) and the
\* edits after it; scores[t + 1] is the ai_scores of segment t.
RECURSIVE edlEdits(_, _, _, _, _, _, _)
edlEdits(segs, scores, takes, fps, i, timelinePos, acc) ==
    IF i >= Len(takes) THEN acc
    ELSE LET take == segs[takes[i + 1] + 1]
             srcIn == timecodeFromSeconds(take.start, fps)
             srcOut == timecodeFromSeconds(take.end, fps)
             recIn == timecodeFromSeconds(timelinePos, fps)
             recOut == timecodeFromSeconds(timelinePos + take.duration, fps)
             score == scores[takes[i + 1] + 1]
         IN  edlEdits(segs, scores, takes, fps, i + 1, timelinePos + take.duration,
                 Append(acc,
                     [line   |-> pad3(i + 1) \o "  AX       AA/V  C        " \o srcIn
                                 \o " " \o srcOut \o " " \o recIn \o " " \o recOut,
                      srcIn  |-> srcIn,
                      srcOut |-> srcOut,
                      recIn  |-> recIn,
                      recOut |-> recOut,
                      take   |-> take.index,
                      score  |-> IF score = None THEN "N/A"
                                 ELSE ToString(score[1].overall)]))

\* app.js 1007-1034.
generateEDL(segs, scores, takes, name, fps) ==
    [title |-> "TITLE: Silence Cutter Edit",
     fcm   |-> "FCM: NON-DROP FRAME",
     clip  |-> name,
     edits |-> edlEdits(segs, scores, takes, fps, 0, 0, <<>>)]

\* clipItems without pos += clipDur.
RECURSIVE clipItemsKeepPos(_, _, _, _, _, _)
clipItemsKeepPos(segs, takes, fps, i, pos, acc) ==
    IF i >= Len(takes) THEN acc
    ELSE LET take == segs[takes[i + 1] + 1]
             inF == frames(take.start, fps)
             outF == frames(take.end, fps)
             clipDur == outF - inF
         IN  clipItemsKeepPos(segs, takes, fps, i + 1, pos,
                 Append(acc, [id |-> i + 1, start |-> pos, end |-> pos + clipDur,
                              in |-> inF, out |-> outF]))

\* app.js 953-970 and 978-993: the clipitems of one track.
RECURSIVE clipItems(_, _, _, _, _, _)
clipItems(segs, takes, fps, i, pos, acc) ==
    IF i >= Len(takes) THEN acc
    ELSE LET take == segs[takes[i + 1] + 1]
             inF == frames(take.start, fps)
             outF == frames(take.end, fps)
             clipDur == outF - inF
         IN  clipItems(segs, takes, fps, i + 1, pos + clipDur,
                 Append(acc, [id |-> i + 1, start |-> pos, end |-> pos + clipDur,
                              in |-> inF, out |-> outF]))

\* /\.(mp4|mov|mkv|webm)$/i.test(name)
VideoExtensions == {<<"m", "p", "4">>, <<"m", "o", "v">>, <<"m", "k", "v">>,
                    <<"w", "e", "b", "m">>}
hasVideo(name) ==
    \E ext \in VideoExtensions :
        /\ Len(name) > Len(ext)
        /\ name[Len(name) - Len(ext)] = "."
        /\ toLowerCase(SubSeq(name, Len(name) - Len(ext) + 1, Len(name))) = ext

\* app.js 925-1002.
generateFCPXML(segs, takes, name, total, fps) ==
    [duration |-> frames(total, fps),
     timebase |-> fps,
     video    |-> IF hasVideo(name)
                  THEN Some(clipItems(segs, takes, fps, 0, 0, <<>>))
                  ELSE None,
     audio    |-> clipItems(segs, takes, fps, 0, 0, <<>>)]

\* ----------------------------------------------------------- export inputs
\* A recording of an hour whose four speech segments start and end on quarter
\* seconds (exact in binary floating point, so that seconds * fps is exact):
\* [0, 0.75], [1.0, 2.5], [59.5, 61.25], [3599.5, 3601.25].
ExportLog ==
    [duration |-> Some(36020000),
     starts   |-> <<7000, 24500, 612000, 36012000>>,
     ends     |-> <<[end |-> 10500, duration |-> 3500],
                    [end |-> 595500, duration |-> 571000],
                    [end |-> 35995500, duration |-> 35383500],
                    [end |-> 36020000, duration |-> 8000]>>]
ExportSegments == detectSilence(ExportLog, DefaultMinSpeech, DefaultPadding)
FpsValues == {24, DefaultFps, 30}
Filenames == {DefaultFilename, <<"t", ".", "M", "O", "V">>, <<"t", ".", "w", "a", "v">>}
\* Every segment is a group of its own.
SingleGroups(n) ==
    [g \in 1..n |-> [group_id |-> g - 1, takes |-> <<g - 1>>,
                     text_summary |-> Lines[g], take_count |-> 1]]

\* The results screen of a session on the export recording: the order
\* suggested by the oracle is any list of up to MaxClips groups, and the
\* best takes follow it.
InitExport ==
    /\ stage = "Ready"
    /\ \E fps \in FpsValues :
          settings = [DefaultSettings EXCEPT !.minSilence = 2000, !.fps = fps]
    /\ filename \in Filenames
    /\ file = Some([SmallFile EXCEPT !.name = filename])
    /\ runPath = Some(InputName)
    /\ inputPath = runPath
    /\ workerFSPath = None
    /\ mounted = None
    /\ inputFile = file
    /\ pipeline = Some(ModelId(settings.whisperModel))
    /\ pipelineLoading = FALSE
    /\ callers = <<>>
    /\ log = ExportLog
    /\ silences = ExportSegments.silences
    /\ segments = ExportSegments.segments
    /\ totalDuration = ExportSegments.totalDuration
    /\ transcription = [i \in 1..Len(segments) |-> Lines[i]]
    /\ AllExtracted(Len(segments))
    /\ groups = SingleGroups(Len(segments))
    /\ suggestedOrder \in SeqsUpTo(0..(Len(segments) - 1), MaxClips)
    /\ bestTakes = suggestedOrder
    /\ is_best = [i \in 1..Len(segments) |->
                     \E k \in 1..Len(suggestedOrder) : suggestedOrder[k] = i - 1]
    /\ ai_scores = [i \in 1..Len(segments) |->
                       IF is_best[i] THEN Some([overall |-> 8]) ELSE None]
    /\ finalDuration = sumDurations(segments, bestTakes)
    /\ timeline = buildTimeline(segments, bestTakes)
    /\ lastOp = [NoOp EXCEPT !.op = "score"]
    /\ lastReply = None
    /\ error = None
    /\ renders = <<bestTakes>>
    /\ requested = Some(bestTakes)
    /\ runs = 1
    /\ cutBlob = None
    /\ edl = None
    /\ xml = None

\* app.js 129-133.
downloadEDL ==
    /\ stage = "Ready"
    /\ edl' = Some(generateEDL(segments, ai_scores, bestTakes, filename, settings.fps))
    /\ UNCHANGED <<stage, settings, log, transcription, filename, pageVars, error>>
    /\ UNCHANGED <<segVars, editVars, audioVars, renders, cutBlob, xml>>

\* app.js 123-127.
downloadXML ==
    /\ stage = "Ready"
    /\ xml' = Some(generateFCPXML(segments, bestTakes, filename, totalDuration,
                                  settings.fps))
    /\ UNCHANGED <<stage, settings, log, transcription, filename, pageVars, error>>
    /\ UNCHANGED <<segVars, editVars, audioVars, renders, cutBlob, edl>>

NextExport == downloadEDL \/ downloadXML

SpecExport == InitExport /\ [][NextExport]_vars

\* ------------------------------------------------------- export properties
\* The frame nearest to a time of t ticks (a half counted up), and the
\* timecode HH:MM:SS:FF of a frame count.
NearestFrame(t) ==
    (t \div 10000) * settings.fps + ((t % 10000) * settings.fps + 5000) \div 10000
TwoDigits(n) == ToString(n \div 10) \o ToString(n % 10)
TimecodeOfFrame(f) ==
    TwoDigits(f \div (3600 * settings.fps)) \o ":"
        \o TwoDigits((f \div (60 * settings.fps)) % 60) \o ":"
        \o TwoDigits((f \div settings.fps) % 60) \o ":"
        \o TwoDigits(f % settings.fps)
\* The take of scenarios S5 and S6 is the first clip, at fps 25.
S5Take ==
    /\ settings.fps = 25
    /\ bestTakes # <<>>
    /\ segments[bestTakes[1] + 1].start = 10000
    /\ segments[bestTakes[1] + 1].end = 25000
TimecodesOf(edit) == <<edit.srcIn, edit.srcOut, edit.recIn, edit.recOut>>
\* Position on the timeline (ticks) before the k-th best take.
TimelinePosBefore(k) ==
    SumSeq([j \in 1..(k - 1) |-> segments[bestTakes[j] + 1].duration])

\* C13 as stated: in scenario S5 the EDL edit line holds the timecodes
\* 00:00:01:00 00:00:02:12 00:00:00:00 00:00:01:12.
C13_Original ==
    (edl # None /\ S5Take) =>
        TimecodesOf(edl[1].edits[1]) =
            <<"00:00:01:00", "00:00:02:12", "00:00:00:00", "00:00:01:12">>

\* C13 amended: every timecode of an EDL edit is that of the frame
\* round(seconds * fps), its frame field being that count mod fps; a half
\* frame rounds up, so in scenario S5 (2.5 s and 1.5 s are 62.5 and 37.5
\* frames) the line holds 00:00:01:00 00:00:02:13 00:00:00:00 00:00:01:13.
C13_EdlTimecodes ==
    edl # None =>
        /\ Len(edl[1].edits) = Len(bestTakes)
        /\ \A k \in 1..Len(bestTakes) :
              LET take == segments[bestTakes[k] + 1]
                  pos == TimelinePosBefore(k)
                  edit == edl[1].edits[k]
              IN  /\ TimecodesOf(edit) =
                        <<TimecodeOfFrame(NearestFrame(take.start)),
                          TimecodeOfFrame(NearestFrame(take.end)),
                          TimecodeOfFrame(NearestFrame(pos)),
                          TimecodeOfFrame(NearestFrame(pos + take.duration))>>
                  /\ edit.line = pad3(k) \o "  AX       AA/V  C        "
                                     \o edit.srcIn \o " " \o edit.srcOut \o " "
                                     \o edit.recIn \o " " \o edit.recOut
        /\ S5Take =>
              edl[1].edits[1].line =
                  "001  AX       AA/V  C        00:00:01:00 00:00:02:13 00:00:00:00 00:00:01:13"

C13_Witness ==
    /\ edl # None
    /\ S5Take
    /\ Len(edl[1].edits) = 2

\* C14 as stated: in scenario S6 the clipitem has in = 25, out = 62,
\* start = 0, end = 37.
C14_Original ==
    (xml # None /\ S5Take) =>
        /\ xml[1].audio[1].in = 25
        /\ xml[1].audio[1].out = 62
        /\ xml[1].audio[1].start = 0
        /\ xml[1].audio[1].end = 37

\* C14 amended: every clipitem has in = round(start * fps),
\* out = round(end * fps), start = the running frame count and
\* end = start + (out - in); a half frame rounds up, so in scenario S6 the
\* clipitem has in = 25, out = 63, start = 0, end = 38.
C14_XmlClipFrames ==
    xml # None =>
        LET clips == xml[1].audio
        IN  /\ Len(clips) = Len(bestTakes)
            /\ \A k \in 1..Len(clips) :
                  /\ clips[k].in = NearestFrame(segments[bestTakes[k] + 1].start)
                  /\ clips[k].out = NearestFrame(segments[bestTakes[k] + 1].end)
                  /\ clips[k].start = IF k = 1 THEN 0 ELSE clips[k - 1].end
                  /\ clips[k].end = clips[k].start + (clips[k].out - clips[k].in)
            /\ xml[1].video \in {None, Some(clips)}
            /\ S5Take =>
                  /\ clips[1].in = 25
                  /\ clips[1].out = 63
                  /\ clips[1].start = 0
                  /\ clips[1].end = 38

C14_Witness ==
    /\ xml # None
    /\ S5Take
    /\ Len(xml[1].audio) = 2
    /\ xml[1].video # None

\* ------------------------------------------- reply shape and default order
\* The reply has every required field: evaluations and, in every entry,
\* takes and best_take_index, and in every take a segment_index.
WellShaped(r) ==
    /\ r.evaluations # None
    /\ \A k \in 1..Len(ReplyEvals(r)) :
          /\ ReplyEvals(r)[k].takes # None
          /\ ReplyEvals(r)[k].best_take_index # None
          /\ \A t \in 1..Len(ReplyEvals(r)[k].takes[1]) :
                ReplyEvals(r)[k].takes[1][t].segment_index # None

\* C17: a reply that lacks a required field (evaluations, a group's takes or
\* best_take_index, a take's segment_index) never reaches Ready: a session
\* that is Ready after scoring applied a reply with every required field.
C17_IllShapedNeverReady == Scored => WellShaped(lastReply[1])

RECURSIVE Flatten(_)
Flatten(ss) == IF ss = <<>> THEN <<>> ELSE Head(ss) \o Flatten(Tail(ss))
\* The best take of every group that has one, in group-id order.
BestInGroupOrder ==
    Flatten([g \in 1..Len(groups) |->
                IF BestOf(g) = {} THEN <<>>
                ELSE <<CHOOSE t \in BestOf(g) : TRUE>>])

\* C18: when the reply's suggested_order is missing or an empty list,
\* best_takes after apply_evaluation is the best take of every group that
\* has one, in group-id order.
C18_DefaultOrderIdentity ==
    (Scored /\ lastReply[1].suggested_order \in {None, Some(<<>>)}) =>
        bestTakes = BestInGroupOrder

\* C19: the best_takes list produced by apply_evaluation is the list that the
\* rebuild of the override path produces from the same groups,
\* suggested_order and is_best flags.
C19_BestTakesPure ==
    Scored => bestTakes = rebuildBest(groups, EffectiveOrder, is_best, <<>>)

\* ================================================================= pipeline
\* startPipeline, app.js 142-292, stage by stage.
EmptyLog == [duration |-> None, starts |-> <<>>, ends |-> <<>>]
\* A recording of 2 s that is silent throughout.
SilentLog ==
    [duration |-> Some(20000), starts |-> <<0>>,
     ends |-> <<[end |-> 20000, duration |-> 20000]>>]
\* What the silence-detect run may leave in the log buffer: nothing (the run
\* threw before printing), a silent recording, or a recording of up to
\* MaxEditSegs segments.
RunLogs == {EmptyLog, SilentLog} \cup {RegularLog(k) : k \in 0..(MaxEditSegs - 1)}
\* What the speech engine returns for a segment, before trim().
RunHeard == {<<" ", "a", "b">>}
\* Replies of the oracle: no evaluations at all or take 0 of every group
\* chosen, with up to one group in suggested_order.
RunReplies(gs, n) ==
    [evaluations : {None, Some([g \in 1..Len(gs) |-> EvalGroup(gs, g - 1, Some(0))])},
     suggested_order : {None} \cup {Some(o) : o \in SeqsUpTo(0..Len(gs), 1)}]

InitRun ==
    /\ stage = "LoadingEngine"
    /\ settings = DefaultSettings
    /\ filename = DefaultFilename
    /\ log = EmptyLog
    /\ silences = <<>>
    /\ segments = <<>>
    /\ totalDuration = 0
    /\ transcription = <<>>
    /\ groups = <<>>
    /\ is_best = <<>>
    /\ ai_scores = <<>>
    /\ bestTakes = <<>>
    /\ suggestedOrder = <<>>
    /\ finalDuration = 0
    /\ timeline = <<>>
    /\ lastOp = NoOp
    /\ lastReply = None
    /\ AllExtracted(0)
    /\ NoOutputs
    /\ \E large \in BOOLEAN : file = Some(RunFile(1, large))
    /\ runPath = None
    /\ inputPath = None
    /\ workerFSPath = None
    /\ mounted = None
    /\ inputFile = None
    /\ Transcriber(FALSE)

\* app.js 163-179: loadFFmpeg and writeFile succeed, and getInputPath gives
\* the path used for the rest of the run.
LoadEngine ==
    /\ stage = "LoadingEngine"
    /\ LET written == writeFile(InputName, file[1], workerFSPath, mounted, inputFile)
       IN  /\ written.ok
           /\ workerFSPath' = written.workerFSPath
           /\ mounted' = written.mounted
           /\ inputFile' = written.inputFile
           /\ runPath' = Some(getInputPath(InputName, written.workerFSPath))
    /\ stage' = "Probing"
    /\ UNCHANGED <<settings, log, transcription, filename, file, inputPath, asrVars,
                   histVars, error>>
    /\ UNCHANGED <<segVars, editVars, audioVars, outVars>>

\* app.js 287-291: loadFFmpeg or writeFile, extractSegmentWav, or
\* loadWhisperModel throws; the catch block shows the error.
PipelineError ==
    /\ stage \in {"LoadingEngine", "Extracting", "LoadingTranscriber"}
    /\ stage' = "Failed"
    /\ error' = Some("Pipeline")
    /\ lastOp' = [NoOp EXCEPT !.op = "fail"]
    /\ UNCHANGED <<settings, log, transcription, filename, pageVars, segVars, groups, is_best,
                   ai_scores, bestTakes, suggestedOrder, finalDuration, timeline,
                   lastReply, audioVars, outVars>>

\* silence.js 206-222: the silence-detect run; an exception of the run is
\* swallowed and whatever reached the log buffer is kept.
Probe ==
    /\ stage = "Probing"
    /\ log' \in RunLogs
    /\ stage' = "Segmenting"
    /\ UNCHANGED <<settings, transcription, filename, pageVars, error>>
    /\ UNCHANGED <<segVars, editVars, audioVars, outVars>>

\* ExtractSegment that moves on after the first segment.
ExtractSegmentOnce ==
    /\ stage = "Extracting"
    /\ Len(wavBlobs) < Len(segments)
    /\ wavBlobs' = Append(wavBlobs, Len(wavBlobs))
    /\ stage' = "LoadingTranscriber"
    /\ UNCHANGED <<settings, log, transcription, filename, pageVars, error, chunks, failed>>
    /\ UNCHANGED <<segVars, editVars, outVars>>

\* app.js 200-212: one pass of the extraction loop; after the last segment
\* the loading of the transcriber starts.
ExtractSegment ==
    /\ stage = "Extracting"
    /\ Len(wavBlobs) < Len(segments)
    /\ wavBlobs' = Append(wavBlobs, Len(wavBlobs))
    /\ stage' = IF Len(wavBlobs) + 1 = Len(segments) THEN "LoadingTranscriber"
                ELSE stage
    /\ UNCHANGED <<settings, log, transcription, filename, pageVars, error, chunks, failed>>
    /\ UNCHANGED <<segVars, editVars, outVars>>

\* app.js 214-226: loadWhisperModel succeeds; it creates the engine for the
\* model id unless the page already holds one (app.js 447-482).
LoadWhisper ==
    /\ stage = "LoadingTranscriber"
    /\ ~pipelineLoading
    /\ pipeline' = IF pipeline # None THEN pipeline
                   ELSE Some(ModelId(settings.whisperModel))
    /\ stage' = "Transcribing"
    /\ UNCHANGED <<settings, log, transcription, filename, fsVars, pipelineLoading,
                   callers, histVars, error>>
    /\ UNCHANGED <<segVars, editVars, audioVars, outVars>>

\* One pass of the loop of transcribeAllSegments (app.js 521-537) for
\* segment i: the result of transcribeBlob is stored, text trimmed, or the
\* empty transcription when the blob is missing or transcribeBlob throws.
Transcribed(i, text, chunkList, threw) ==
    /\ transcription' = Append(transcription, text)
    /\ chunks' = Append(chunks, chunkList)
    /\ failed' = IF threw THEN failed \cup {i} ELSE failed
    /\ stage' = IF i + 1 = Len(segments) THEN "Grouping" ELSE stage
    /\ UNCHANGED <<settings, log, filename, pageVars, error, wavBlobs>>
    /\ UNCHANGED <<segVars, editVars, outVars>>

\* TranscribeSegment in which a failing segment ends the run.
TranscribeSegmentAbort ==
    /\ stage = "Transcribing"
    /\ LET i == Len(transcription)
       IN  \/ \E heard \in RunHeard : Transcribed(i, trim(heard), <<heard>>, FALSE)
           \/ /\ stage' = "Failed"
              /\ error' = Some("Pipeline")
              /\ failed' = failed \cup {i}
              /\ UNCHANGED <<settings, log, transcription, filename, pageVars, wavBlobs, chunks>>
              /\ UNCHANGED <<segVars, editVars, outVars>>

TranscribeSegment ==
    /\ stage = "Transcribing"
    /\ LET i == Len(transcription)
       IN  IF i >= Len(wavBlobs)
           THEN Transcribed(i, <<>>, <<>>, FALSE)
           ELSE \/ \E heard \in RunHeard : Transcribed(i, trim(heard), <<heard>>, FALSE)
                \/ Transcribed(i, <<>>, <<>>, TRUE)

ScoreRun ==
    /\ stage = "Scoring"
    /\ \E evaluation \in RunReplies(groups, Len(segments)) :
          Score(evaluation) /\ lastReply' = None

\* app.js 355-358, doRenderCutFile up to the call of renderCutFile
\* (app.js 360-395): a click on the rerender button requests a render of the
\* current best takes; without best takes or input path it does nothing.
Rerender ==
    /\ stage = "Ready"
    /\ Len(renders) < MaxRenders
    /\ IF bestTakes = <<>> \/ inputPath = None
       THEN UNCHANGED <<renders, requested>>
       ELSE /\ renders' = Append(renders, bestTakes)
            /\ requested' = Some(bestTakes)
    /\ lastOp' = [NoOp EXCEPT !.op = "rerender"]
    /\ lastReply' = None
    /\ UNCHANGED <<stage, settings, log, transcription, filename, fsVars, asrVars,
                   runs, error, cutBlob, edl, xml>>
    /\ UNCHANGED <<segVars, groups, is_best, ai_scores, bestTakes, suggestedOrder,
                   finalDuration, timeline, audioVars>>

\* The adapter serialises its commands: of the renders requested and not
\* yet finished the one requested first finishes next.
nextRender(rs) == 1

\* RenderDone that stores the take list current at the end of the render.
RenderDoneCurrent ==
    /\ stage = "Ready"
    /\ renders # <<>>
    /\ cutBlob' = Some(bestTakes)
    /\ renders' = RemoveAt(renders, nextRender(renders))
    /\ UNCHANGED <<stage, settings, log, transcription, filename, pageVars, error, edl, xml>>
    /\ UNCHANGED <<segVars, editVars, audioVars>>

\* The render started by doRenderCutFile (app.js 386-395) completes.
RenderDone ==
    /\ stage = "Ready"
    /\ renders # <<>>
    /\ cutBlob' = Some(renders[nextRender(renders)])
    /\ renders' = RemoveAt(renders, nextRender(renders))
    /\ UNCHANGED <<stage, settings, log, transcription, filename, pageVars, error, edl, xml>>
    /\ UNCHANGED <<segVars, editVars, audioVars>>

\* renderCutFile throws: app.js 414-419, the message is shown in the preview.
RenderFail ==
    /\ stage = "Ready"
    /\ renders # <<>>
    /\ renders' = RemoveAt(renders, nextRender(renders))
    /\ UNCHANGED <<stage, settings, log, transcription, filename, pageVars, error, cutBlob,
                   edl, xml>>
    /\ UNCHANGED <<segVars, editVars, audioVars>>

NextRun ==
    \/ LoadEngine
    \/ PipelineError
    \/ Probe
    \/ DetectSilence
    \/ ExtractSegment
    \/ LoadWhisper
    \/ TranscribeSegment
    \/ GroupTakes
    \/ ScoreRun
    \/ ScoreFail
    \/ Override
    \/ RenderDone
    \/ RenderFail

SpecRun == InitRun /\ [][NextRun]_vars

\* The results screen: scoring, then overrides, rerenders and the renders
\* finishing in the background.
NextRender == ScoreRun \/ Override \/ Rerender \/ RenderDone \/ RenderFail

\* Renders and overrides of a source of one or two segments.
InitRender == InitEdit /\ Len(segments) <= 2

SpecRender == InitRender /\ [][NextRender]_vars

\* ------------------------------------------------------------ page session
\* The page as loaded: the state of app.js 17-32 on the upload screen.
FreshState ==
    /\ settings = DefaultSettings
    /\ filename = <<>>
    /\ file = None
    /\ segments = <<>>
    /\ totalDuration = 0
    /\ transcription = <<>>
    /\ groups = <<>>
    /\ is_best = <<>>
    /\ ai_scores = <<>>
    /\ bestTakes = <<>>
    /\ suggestedOrder = <<>>
    /\ finalDuration = 0
    /\ cutBlob = None
    /\ inputPath = None
    /\ AllExtracted(0)

UploadScreen ==
    /\ stage = "Idle"
    /\ FreshState
    /\ log = EmptyLog
    /\ silences = <<>>
    /\ timeline = <<>>
    /\ lastOp = NoOp
    /\ lastReply = None
    /\ error = None
    /\ renders = <<>>
    /\ edl = None
    /\ xml = None
    /\ runPath = None
    /\ workerFSPath = None
    /\ mounted = None
    /\ inputFile = None
    /\ pipeline = None
    /\ pipelineLoading = FALSE
    /\ requested = None
    /\ runs = 0

InitSession == UploadScreen /\ callers = <<>>

\* app.js 44-60 and 142-149: a file is dropped or chosen on the upload
\* screen and startPipeline begins.
StartPipeline ==
    /\ stage = "Idle"
    /\ runs < MaxRuns
    /\ runs' = runs + 1
    /\ \E large \in BOOLEAN :
          /\ file' = Some(RunFile(runs + 1, large))
          /\ filename' = RunFile(runs + 1, large).name
    /\ settings' = DefaultSettings
    /\ runPath' = None
    /\ stage' = "LoadingEngine"
    /\ lastOp' = [NoOp EXCEPT !.op = "start"]
    /\ UNCHANGED <<log, transcription, error, inputPath, workerFSPath, mounted,
                   inputFile, asrVars, requested>>
    /\ UNCHANGED <<segVars, groups, is_best, ai_scores, bestTakes, suggestedOrder,
                   finalDuration, timeline, lastReply, audioVars, outVars>>

\* app.js 119: the retry button of the error screen shows the upload screen.
Retry ==
    /\ stage = "Failed"
    /\ stage' = "Idle"
    /\ error' = None
    /\ lastOp' = [NoOp EXCEPT !.op = "retry"]
    /\ UNCHANGED <<settings, log, transcription, filename, pageVars>>
    /\ UNCHANGED <<segVars, groups, is_best, ai_scores, bestTakes, suggestedOrder,
                   finalDuration, timeline, lastReply, audioVars, outVars>>

\* app.js 109-118: the new button of the results screen replaces the state
\* by a fresh one, resets workerFSPath (part_002 293-295) and shows the
\* upload screen.  A render still running belongs to the replaced state.
New ==
    /\ stage = "Ready"
    /\ stage' = "Idle"
    /\ filename' = <<>>
    /\ file' = None
    /\ segments' = <<>>
    /\ totalDuration' = 0
    /\ transcription' = <<>>
    /\ groups' = <<>>
    /\ is_best' = <<>>
    /\ ai_scores' = <<>>
    /\ bestTakes' = <<>>
    /\ suggestedOrder' = <<>>
    /\ finalDuration' = 0
    /\ cutBlob' = None
    /\ inputPath' = None
    /\ wavBlobs' = <<>>
    /\ chunks' = <<>>
    /\ failed' = {}
    /\ workerFSPath' = None
    /\ renders' = <<>>
    /\ lastOp' = [NoOp EXCEPT !.op = "new"]
    \* the settings are read from the page again by the next startPipeline
    /\ UNCHANGED <<settings, log, silences, timeline, lastReply, error, edl, xml,
                   runPath, mounted, inputFile, asrVars, histVars>>

NextSession ==
    \/ StartPipeline
    \/ LoadEngine
    \/ PipelineError
    \/ Probe
    \/ DetectSilence
    \/ ExtractSegment
    \/ LoadWhisper
    \/ TranscribeSegment
    \/ GroupTakes
    \/ ScoreRun
    \/ ScoreFail
    \/ Retry
    \/ New

SpecSession == InitSession /\ [][NextSession]_vars

\* ------------------------------------------------------------- transcriber
\* The calls of loadWhisperModel (app.js 447-482) of a page session, each
\* with the model id of its run's settings.  A call is at one of its await
\* points: waiting in the polling loop, or creating the engine.
WhisperModels == {"small", "tiny"}
IdleCall == [pc |-> "idle", modelName |-> "", result |-> None]

InitWhisper ==
    /\ UploadScreen
    /\ callers = [c \in 1..MaxCallers |-> IdleCall]

\* Everything but the module variables of the transcriber.
pageButAsr == <<stage, settings, log, transcription, filename, error, segVars,
                editVars, audioVars, outVars, fsVars, histVars>>

\* app.js 447-458: the call up to its first await.
Call(c, m) ==
    /\ callers[c].pc = "idle"
    /\ IF pipeline # None
       THEN /\ callers' = [callers EXCEPT
                             ![c] = [pc |-> "returned", modelName |-> ModelId(m),
                                     result |-> pipeline]]
            /\ UNCHANGED pipelineLoading
       ELSE IF pipelineLoading
       THEN /\ callers' = [callers EXCEPT
                             ![c] = [pc |-> "waiting", modelName |-> ModelId(m),
                                     result |-> None]]
            /\ UNCHANGED pipelineLoading
       ELSE /\ callers' = [callers EXCEPT
                             ![c] = [pc |-> "creating", modelName |-> ModelId(m),
                                     result |-> None]]
            /\ pipelineLoading' = TRUE
    /\ UNCHANGED <<pipeline, pageButAsr>>

\* app.js 465-481: createPipeline resolves.
CreateDone(c) ==
    /\ callers[c].pc = "creating"
    /\ pipeline' = Some(callers[c].modelName)
    /\ pipelineLoading' = FALSE
    /\ callers' = [callers EXCEPT ![c].pc = "returned",
                                  ![c].result = Some(callers[c].modelName)]
    /\ UNCHANGED pageButAsr

\* app.js 461-479: the import or createPipeline rejects; finally resets the
\* flag and the call throws.
CreateFail(c) ==
    /\ callers[c].pc = "creating"
    /\ pipelineLoading' = FALSE
    /\ callers' = [callers EXCEPT ![c].pc = "threw"]
    /\ UNCHANGED <<pipeline, pageButAsr>>

\* app.js 449-455: a timer of the polling loop fires with the flag reset.
WaitWake(c) ==
    /\ callers[c].pc = "waiting"
    /\ ~pipelineLoading
    /\ callers' = [callers EXCEPT ![c].pc = "returned", ![c].result = pipeline]
    /\ UNCHANGED <<pipeline, pipelineLoading, pageButAsr>>

NextWhisper ==
    \/ \E c \in 1..MaxCallers, m \in WhisperModels : Call(c, m)
    \/ \E c \in 1..MaxCallers : CreateDone(c)
    \/ \E c \in 1..MaxCallers : CreateFail(c)
    \/ \E c \in 1..MaxCallers : WaitWake(c)

SpecWhisper == InitWhisper /\ [][NextWhisper]_vars

\* ------------------------------------------------------ pipeline properties
\* C15: when segmentation yields an empty segment list the run fails with
\* the no-speech error, and nothing runs after a failure: no step leaves
\* Failed, so no extraction, transcription, grouping, scoring, assembling or
\* rendering takes place in that run.
C15_NoSpeechFails ==
    [][/\ stage # "Failed"
       /\ (stage = "Segmenting" /\ segments' = <<>>) =>
              /\ stage' = "Failed"
              /\ error' = Some("NoSpeech")
              /\ wavBlobs' = <<>> /\ transcription' = <<>> /\ groups' = <<>>
              /\ bestTakes' = <<>> /\ renders' = <<>> /\ cutBlob' = None]_vars

C15_Witness ==
    /\ stage = "Failed"
    /\ error = Some("NoSpeech")
    /\ log = SilentLog
    /\ totalDuration = 20000
    /\ segments = <<>>

TranscriptionOver == stage \in {"Grouping", "Scoring", "Ready"}

\* C16: a transcription failure is local: the failing segment gets the empty
\* transcription (text "", no chunks), every other segment holds the trimmed
\* text and the chunks the engine returned, after the stage every segment
\* has a transcription, and a run with a failed transcription goes on to
\* grouping (it can only fail later, in scoring).
C16_TranscriptionFailureLocal ==
    /\ Len(chunks) = Len(transcription)
    /\ \A i \in 1..Len(transcription) :
          IF i - 1 \in failed
          THEN transcription[i] = <<>> /\ chunks[i] = <<>>
          ELSE \E heard \in RunHeard :
                  transcription[i] = trim(heard) /\ chunks[i] = <<heard>>
    /\ TranscriptionOver => Len(transcription) = Len(segments)
    /\ (failed # {} /\ stage # "Transcribing" /\ ~TranscriptionOver) =>
          /\ stage = "Failed"
          /\ Len(transcription) = Len(segments)
          /\ groups # <<>>

C16_Witness ==
    /\ stage = "Scoring"
    /\ failed = {0}
    /\ Len(segments) = 2
    /\ transcription[2] = <<"a", "b">>
    /\ Len(groups) = 2

\* The stages of a run in order; assembling is the part of the scoring
\* continuation that ends in Ready, rendering runs while the session is
\* Ready.
StageOrder == <<"LoadingEngine", "Probing", "Segmenting", "Extracting",
                "LoadingTranscriber", "Transcribing", "Grouping", "Scoring",
                "Ready">>
StageNo(st) == CHOOSE k \in 1..Len(StageOrder) : StageOrder[k] = st
Assembled ==
    /\ finalDuration = SumSeq([k \in 1..Len(bestTakes) |->
                                  segments[bestTakes[k] + 1].duration])
    /\ Len(timeline) = Len(bestTakes)
    /\ Len(is_best) = Len(segments)

\* C20: the stages run in the fixed order, each starting only when the
\* previous one has completed: every change of stage goes to the next stage
\* of the order or, before Ready, to Failed; Failed is never left; Ready is
\* entered only with the assembled edit list; a render is in flight or done
\* only in Ready; and a select_take in Ready leaves the session in Ready.
C20_StageOrder ==
    [][/\ stage # "Failed"
       /\ stage' # stage =>
             \/ stage' = "Failed" /\ stage # "Ready" /\ error' # None
             \/ StageNo(stage') = StageNo(stage) + 1
       /\ (stage' = "Extracting") => segments' # <<>>
       /\ (stage' = "LoadingTranscriber") => Len(wavBlobs') = Len(segments')
       /\ (stage' = "Grouping") => Len(transcription') = Len(segments')
       /\ (stage' = "Scoring") => TakesOf(groups') = 0..(Len(segments') - 1)
       /\ (stage' = "Ready") => Assembled'
       /\ (renders' # <<>> \/ cutBlob' # None) => stage' = "Ready"
       /\ (lastOp'.op = "select") => (stage = "Ready" /\ stage' = "Ready")]_vars

C20_Witness ==
    /\ stage = "Ready"
    /\ lastOp.op = "select"
    /\ cutBlob # None
    /\ Len(segments) = 2

\* ------------------------------------------------------- render properties
\* C21: renders finish one at a time in the order requested (nextRender),
\* and once no render is in flight the stored cut blob is the result of the
\* latest render requested.
C21_LatestRenderStored ==
    (stage = "Ready" /\ renders = <<>> /\ requested # None /\ cutBlob # None)
        => cutBlob = requested

\* C28 as stated: a cut blob stored in Ready was rendered from the current
\* best takes.
C28_Original ==
    (stage = "Ready" /\ cutBlob # None) => cutBlob = Some(bestTakes)

\* C28, amended: the stored cut blob changes only when a render finishes,
\* to the take list that was current when that render was requested; a
\* select_take neither changes the stored blob nor requests a render, so
\* after an override the blob is that of the earlier list until a rerender
\* requested afterwards has finished.
C28_BlobFromRequest ==
    [][/\ cutBlob' # cutBlob =>
            (renders # <<>> /\ cutBlob' = Some(Head(renders)))
       /\ Len(renders') > Len(renders) =>
            renders' = Append(renders, bestTakes')
       /\ (stage = "Ready" /\ bestTakes' # bestTakes) =>
            (cutBlob' = cutBlob /\ renders' = renders)]_vars

\* An override has changed the best takes after the stored cut was rendered.
C28_Witness ==
    /\ stage = "Ready"
    /\ lastOp.op = "select"
    /\ cutBlob # None
    /\ cutBlob # Some(bestTakes)
    /\ renders = <<>>

\* ------------------------------------------------------ grouper properties
\* The similarity as the design states it, as a fraction.
SpecifiedSimilarity(a0, b0) ==
    LET a == trim(toLowerCase(a0))
        b == trim(toLowerCase(b0))
    IN  IF a = b THEN [num |-> 1, den |-> 1]
        ELSE IF a = <<>> \/ b = <<>> THEN [num |-> 0, den |-> 1]
        ELSE [num |-> Max(Len(a), Len(b)) - levenshtein(a, b),
              den |-> Max(Len(a), Len(b))]
SameGroup(i, j) ==
    \E g \in 1..Len(groups) : {i, j} \subseteq TakeSet(g)

\* C22: the similarity the grouper uses is the specified one (1 for equal
\* texts and for two empty texts, 0 when exactly one is empty, otherwise
\* 1 - levenshtein / max length), and two segments with empty
\* transcriptions end up in the same group.
C22_SimilarityAsSpecified ==
    stage = "Scoring" =>
        \A i, j \in 1..Len(transcription) :
            LET sim == textSimilarity(transcription[i], transcription[j])
                want == SpecifiedSimilarity(transcription[i], transcription[j])
            IN  /\ sim.num * want.den = want.num * sim.den
                /\ (transcription[i] = <<>> /\ transcription[j] = <<>>)
                      => SameGroup(i - 1, j - 1)

\* -------------------------------------------------------- frame properties
\* C23: apply_evaluation and select_take change neither the groups (their
\* ids, members and the order of the takes) nor any segment (index, start,
\* end, duration); select_take(g, s) also leaves suggested_order and the
\* is_best flag of every take outside group g as they were.
C23_EditFrame ==
    [][/\ groups' = groups
       /\ segments' = segments
       /\ (stage = "Ready" /\ lastOp'.op = "select") =>
             /\ suggestedOrder' = suggestedOrder
             /\ \A i \in 1..Len(segments) :
                   (lastOp'.groupId >= Len(groups)
                       \/ (i - 1) \notin TakeSet(lastOp'.groupId + 1))
                     => is_best'[i] = is_best[i]]_vars

\* A take of one group has just been chosen while another group keeps the
\* best take the evaluation gave it.
C23_Witness ==
    /\ stage = "Ready"
    /\ lastOp.op = "select"
    /\ Len(groups) = 2
    /\ ValidSelect(lastOp.groupId, lastOp.segIndex)
    /\ \E i \in 1..Len(segments) :
          (i - 1) \notin TakeSet(lastOp.groupId + 1) /\ is_best[i]

\* ------------------------------------------------ best_take_index properties
\* The best_take_index that decides for group g: that of the last entry of
\* the reply that names the group and carries one.
DecidingIndex(g) ==
    ReplyEvals(lastReply[1])[SetMax(EntriesFor(lastReply[1], g))].best_take_index[1]

\* C24: a best_take_index in the range of the group's takes list is a
\* position in that list, and the take at that position becomes the only
\* best take (also when another take of the group has that number as its
\* segment index); an index out of range is taken as a segment index, and
\* when no take of the group has it the group has no best take and none of
\* its takes is in best_takes.
C24_BestIndexInterpretation ==
    Scored =>
        \A g \in 1..Len(groups) :
            /\ EntriesFor(lastReply[1], g) # {} =>
                  LET b == DecidingIndex(g)
                  IN  IF b < Len(groups[g].takes)
                      THEN BestOf(g) = {groups[g].takes[b + 1]}
                      ELSE BestOf(g) = {b} \cap TakeSet(g)
            /\ BestOf(g) = {} =>
                  \A k \in 1..Len(bestTakes) : bestTakes[k] \notin TakeSet(g)

\* Group {1, 2} was answered with best_take_index 1: position 1 holds
\* segment 2, while segment 1 is the other take of the group.
C24_Witness ==
    /\ Scored
    /\ \E g \in 1..Len(groups) :
          /\ EntriesFor(lastReply[1], g) # {}
          /\ DecidingIndex(g) < Len(groups[g].takes)
          /\ DecidingIndex(g) \in TakeSet(g)
          /\ groups[g].takes[DecidingIndex(g) + 1] # DecidingIndex(g)
          /\ BestOf(g) = {groups[g].takes[DecidingIndex(g) + 1]}
          /\ \E k \in 1..Len(bestTakes) :
                bestTakes[k] = groups[g].takes[DecidingIndex(g) + 1]

\* ------------------------------------------------------- greedy grouping
Seed(g) == groups[g].takes[1]
SimilarTakes(i, j) ==
    similarEnough(transcription[i + 1], transcription[j + 1],
                  settings.similarityThreshold)

\* C25: every member of a group other than its seed (first take) comes
\* after the seed and is similar enough to the seed, and no take of a group
\* is similar enough to the seed of an earlier group; nothing is required
\* of two members of one group.  Similar enough is textSimilarity, as the
\* grouper computes it, being at least the threshold.  For S3 with threshold 0.6 the groups are
\* {0, 1} and {2}.
C25_GreedyAgainstSeed ==
    stage = "Scoring" =>
        /\ \A g \in 1..Len(groups) :
              /\ \A k \in 2..Len(groups[g].takes) :
                    /\ groups[g].takes[k] > Seed(g)
                    /\ SimilarTakes(Seed(g), groups[g].takes[k])
              /\ \A j \in TakeSet(g) : \A h \in 1..(g - 1) :
                    ~SimilarTakes(Seed(h), j)
        /\ (transcription = S3Texts /\ settings.similarityThreshold = DefaultThreshold)
              => (Len(groups) = 2 /\ groups[1].takes = <<0, 1>>
                                 /\ groups[2].takes = <<2>>)

\* A group of three takes whose second and third member are not similar
\* enough to each other.
C25_Witness ==
    /\ stage = "Scoring"
    /\ \E g \in 1..Len(groups) :
          /\ Len(groups[g].takes) = 3
          /\ ~SimilarTakes(groups[g].takes[2], groups[g].takes[3])

\* --------------------------------------------------- frame-exact exports
\* The frame count a timecode stands for, looked up among the frames next
\* to the frame of t.
FrameOfTimecode(tc, t) ==
    CHOOSE f \in (NearestFrame(t) - 2)..(NearestFrame(t) + 2) :
        f >= 0 /\ TimecodeOfFrame(f) = tc
SrcInFrames(k) == FrameOfTimecode(edl[1].edits[k].srcIn, segments[bestTakes[k] + 1].start)
SrcOutFrames(k) == FrameOfTimecode(edl[1].edits[k].srcOut, segments[bestTakes[k] + 1].end)
RecInFrames(k) == FrameOfTimecode(edl[1].edits[k].recIn, TimelinePosBefore(k))
RecOutFrames(k) == FrameOfTimecode(edl[1].edits[k].recOut, TimelinePosBefore(k + 1))

\* C26: in every EDL event the source length in frames equals the record
\* length in frames, and each event's REC_IN is the REC_OUT of the event
\* before it.
C26_EdlFrameExact ==
    edl # None =>
        \A k \in 1..Len(edl[1].edits) :
            /\ SrcOutFrames(k) - SrcInFrames(k) = RecOutFrames(k) - RecInFrames(k)
            /\ k > 1 => edl[1].edits[k].recIn = edl[1].edits[k - 1].recOut

\* C27: for the same best takes and fps, clipitem i of the XMEML has
\* start / end equal to the frame counts of REC_IN / REC_OUT of EDL event i
\* and in / out equal to those of SRC_IN / SRC_OUT.
C27_FormatsAgree ==
    (edl # None /\ xml # None) =>
        /\ Len(xml[1].audio) = Len(edl[1].edits)
        /\ \A k \in 1..Len(edl[1].edits) :
              /\ xml[1].audio[k].in = SrcInFrames(k)
              /\ xml[1].audio[k].out = SrcOutFrames(k)
              /\ xml[1].audio[k].start = RecInFrames(k)
              /\ xml[1].audio[k].end = RecOutFrames(k)

\* ------------------------------------------------------ session properties
\* The file the engine reads at a path.
FileAt(path) ==
    IF path.dir = MountPoint
    THEN IF mounted # None /\ mounted[1].name = path.name THEN mounted ELSE None
    ELSE inputFile
EngineStages == {"Probing", "Segmenting", "Extracting", "LoadingTranscriber",
                 "Transcribing", "Grouping", "Scoring"}

\* C29: in every run the input path handed to the engine is that of the
\* file ingested in that run, during the run and for the renders of its
\* results; and once a session has been left no view is mounted any more.
C29_RunReadsItsFile ==
    /\ stage \in EngineStages => (runPath # None /\ FileAt(runPath[1]) = file)
    /\ stage = "Ready" => (inputPath # None /\ FileAt(inputPath[1]) = file)
    /\ stage = "Idle" => mounted = None

\* --------------------------------------------------- transcriber properties
\* C30: a call of loadWhisperModel(m) that has returned holds an engine
\* created for model m; in particular it never holds null.
C30_EngineOfRequestedModel ==
    \A c \in DOMAIN callers :
        callers[c].pc = "returned" => callers[c].result = Some(callers[c].modelName)
====
